---- MODULE Spec2Model ----
(***************************************************************************)
(* A model of coc-explorer's file source and explorer view.                *)
(*                                                                         *)
(*   SpecDebounce    src/util/throttle-debounce.ts: one wrapper made by    *)
(*   SpecThrottle    debounce(delay, fn) or throttle(delay, fn, {tail}),   *)
(*                   its calls, its timer and the runs of fn, on a         *)
(*                   discrete clock.                                       *)
(*                                                                         *)
(*   SpecFileSource  src/source/sources/file/file-source.ts: the file      *)
(*                   source's tree of FileItems, the expandStore, the      *)
(*                   clipboard sets and its actions, each an asynchronous  *)
(*                   handler that other handlers interleave with at its    *)
(*                   awaits, over a small filesystem.                      *)
(*                                                                         *)
(*   SpecFileActions the file source's delete and deleteForever actions    *)
(*                   as loadFileActions registers them, with the prompts   *)
(*                   they ask and the buffers the buffer manager knows as  *)
(*                   modified.                                             *)
(*   SpecClipboard   the file source's copyFile, cutFile and pasteFile     *)
(*                   actions as loadFileActions registers them.            *)
(*   SpecLoading     the expand and shrink actions of FileSource, plain    *)
(*                   and recursive, and the reveal of opened(), with       *)
(*                   expandStore and the loading of items.                 *)
(*   SpecDraw        FileSource.draw between expand, shrink and            *)
(*                   toggleHidden: the items drawn and their level flags.  *)
(*   SpecView        src/view/viewExplorer.ts: the sources' line ranges,   *)
(*                   the cursor and the lookup of the node on its line.    *)
(*                                                                         *)
(* Time is counted in clock ticks.  A timer armed with setTimeout(cb, d)   *)
(* at clock t runs cb at clock t + d, before anything else that happens at *)
(* that instant (Node runs its expired timers first).                      *)
(***************************************************************************)
EXTENDS Integers, Sequences, FiniteSets, TLC

\* ------------------------------------------------------------------ bounds
\* The largest delay a wrapper is built with; Date.now() at construction.
MaxDelay == 4
\* How many ticks the clock runs after construction.
MaxTime == 8
\* How many calls of the wrapper one behaviour makes.
MaxCalls == 3
\* How many handlers (actions and buffer-enter events) one behaviour starts.
MaxOps == 2
\* How many nodes a selection holds.
MaxSel == 2
\* How many clipboard actions (copyFile, cutFile, pasteFile) or how many
\* expand / shrink actions are started.
MaxActions == 3

MaxSources == 2

MaxNodes == 2

Epoch == MaxDelay

VARIABLES
  kind,        \* "debounce" | "throttle": which wrapper was built
  tail,        \* throttle's { tail } option
  delay,       \* the wrapper's delay
  clock,       \* Date.now()
  timer,       \* debounce's `timer`: 0 is null, c the Timeout armed by call c
  pending,     \* the calls whose setTimeout callback is still to run
  lastResolve, \* debounce's `lastResolve`: the call whose resolve it holds, 0 is null
  lastTime,    \* throttle's `lastTime`
  calls,       \* history: one record per call of the wrapper
  execs,       \* history: one record per invocation of fn
  inflight     \* the calls whose invocation of fn has not returned yet

tvars == <<kind, tail, delay, clock, timer, pending, lastResolve, lastTime,
           calls, execs, inflight>>

VARIABLES
  fs,          \* the filesystem: path -> "none" | "file" | "dir"
  record,      \* expandStore.record: path -> boolean, on the paths ever written
  items,       \* FileSource.items: the root's FileItems, in order
  tree,        \* the FileItems reachable from items: path -> its fields
  gen,         \* how many times items was replaced (older FileItems are stale)
  copyItems,   \* FileSource.copyItems
  cutItems,    \* FileSource.cutItems
  act,         \* the action handler in progress
  be,          \* the onBufEnter auto-reveal handler in progress
  modified,    \* bufManager: the paths of the buffers with unsaved changes
  copiedNodes, \* file.copiedNodes: the nodes marked for copy
  cutNodes,    \* file.cutNodes: the nodes marked for cut
  ops,         \* how many handlers were started
  showHiddenFiles \* FileSource.showHiddenFiles

fvars == <<fs, record, items, tree, gen, copyItems, cutItems, act, be, modified,
           copiedNodes, cutNodes, ops, showHiddenFiles>>

VARIABLES
  sources,          \* explorer.sources: each source's view, in registration order
  win,              \* whether the explorer has a window
  cursor,           \* the window's cursor row, 1-indexed
  currentLineIndex, \* ViewExplorer.currentLineIndex
  located           \* the line index and the result of the last currentNode()

vvars == <<sources, win, cursor, currentLineIndex, located>>

vars == <<tvars, fvars, vvars>>

\* ------------------------------------------------------------ the history
\* calls[i].via:   "immediate" (throttle ran fn at once), "deferred" (went through
\*                 debounce), "dropped" (throttle without tail returned undefined)
\* calls[i].state: "pending", "noop" (resolved with undefined by the wrapper),
\*                 "value" (resolved with fn's result), "error" (rejected)
\* calls[i].since: the time elapsed, at the call, since fn was last invoked
\*                 (since construction when it never was)
\* The arguments of call i are i itself: no two calls pass the same arguments.
CallIds == 1..Len(calls)

ExecsOf(c) == {e \in 1..Len(execs) : execs[e].call = c}

LastExecAt == IF execs = <<>> THEN 0 ELSE execs[Len(execs)].at

NewCall(via, state) ==
  [at |-> clock, via |-> via, state |-> state,
   settledAt |-> IF state = "pending" THEN -1 ELSE clock,
   since |-> clock - LastExecAt]

\* resolve(v) / reject(e) of call c's promise: the first settlement wins.
Settle(cs, c, state) ==
  IF c = 0 \/ cs[c].state # "pending" THEN cs
  ELSE [cs EXCEPT ![c].state = state, ![c].settledAt = clock]

\* setTimeout(cb, delay) by the call made at calls[c].at runs cb at:
Due(c) == calls[c].at + delay

\* ------------------------------------------------------------------ debounce
\* debounce without its clearTimeout(timer): the superseded callback still runs.
debounce_mutNoClear(c, cs) ==
  /\ calls' = IF timer # 0 THEN Settle(cs, lastResolve, "noop") ELSE cs
  /\ lastResolve' = c
  /\ timer' = c
  /\ pending' = pending \cup {c}

\* The debounced function called as call number c; cs is `calls` with the new
\* call's record appended.  `timer` is never reset to null, so from the second
\* call on the branch is always taken.
debounce(c, cs) ==
  /\ calls' = IF timer # 0 THEN Settle(cs, lastResolve, "noop") ELSE cs
  /\ lastResolve' = c
  /\ timer' = c
  /\ pending' = (IF timer # 0 THEN pending \ {timer} ELSE pending) \cup {c}

\* The setTimeout callback of debounce: fn is invoked with the call's arguments.
TimerFire ==
  \E c \in pending :
    /\ clock = Due(c)
    /\ execs' = Append(execs, [call |-> c, at |-> clock])
    /\ inflight' = inflight \cup {c}
    /\ pending' = pending \ {c}
    /\ UNCHANGED <<kind, tail, delay, clock, timer, lastResolve, lastTime, calls>>
    /\ UNCHANGED <<fvars, vvars>>

\* fn's promise settles: the awaiting callback resolves or rejects the call.
FnReturn ==
  \E c \in inflight, outcome \in {"value", "error"} :
    /\ inflight' = inflight \ {c}
    /\ calls' = Settle(calls, c, outcome)
    /\ UNCHANGED <<kind, tail, delay, clock, timer, pending, lastResolve,
                   lastTime, execs>>
    /\ UNCHANGED <<fvars, vvars>>

\* ------------------------------------------------------------------ throttle
\* The throttled function called as call number c.
throttle(c) ==
  IF clock - lastTime < delay
  THEN IF tail
       THEN /\ debounce(c, Append(calls, NewCall("deferred", "pending")))
            /\ UNCHANGED <<lastTime, execs, inflight>>
       ELSE /\ calls' = Append(calls, NewCall("dropped", "noop"))
            /\ UNCHANGED <<timer, pending, lastResolve, lastTime, execs, inflight>>
  ELSE /\ lastTime' = clock
       /\ calls' = Append(calls, NewCall("immediate", "pending"))
       /\ execs' = Append(execs, [call |-> c, at |-> clock])
       /\ inflight' = inflight \cup {c}
       /\ UNCHANGED <<timer, pending, lastResolve>>

\* No callback of an expired timer is waiting to run.
NoTimerDue == \A c \in pending : Due(c) > clock

CallDebounce ==
  /\ kind = "debounce"
  /\ Len(calls) < MaxCalls
  /\ NoTimerDue
  /\ debounce(Len(calls) + 1, Append(calls, NewCall("deferred", "pending")))
  /\ UNCHANGED <<kind, tail, delay, clock, lastTime, execs, inflight>>
  /\ UNCHANGED <<fvars, vvars>>

CallThrottle ==
  /\ kind = "throttle"
  /\ Len(calls) < MaxCalls
  /\ NoTimerDue
  /\ throttle(Len(calls) + 1)
  /\ UNCHANGED <<kind, tail, delay, clock>>
  /\ UNCHANGED <<fvars, vvars>>

Tick ==
  /\ clock < Epoch + MaxTime
  /\ NoTimerDue
  /\ clock' = clock + 1
  /\ UNCHANGED <<kind, tail, delay, timer, pending, lastResolve, lastTime,
                 calls, execs, inflight>>
  /\ UNCHANGED <<fvars, vvars>>

\* ---------------------------------------------------------------- the files
\* A path is the sequence of its segments below the explorer's root; the root
\* itself is the empty path.  The paths of the model are the entries of the root
\* and the entries of its entry "a".
Names == {"a", "x"}

Root == <<>>

Paths == {<<n>> : n \in Names} \cup {<<"a", n>> : n \in Names}

\* What the user can type at an input() prompt: nothing, a name, or a/b.
Inputs == {<<>>} \cup Paths

\* pathLib.dirname, pathLib.basename, pathLib.join
Dirname(p) == SubSeq(p, 1, Len(p) - 1)

Basename(p) == p[Len(p)]

Join(dir, rel) == dir \o rel

\* path.startsWith(dir + '/')
StartsWithDir(p, dir) == Len(p) > Len(dir) /\ SubSeq(p, 1, Len(dir)) = dir

\* The process's working directory, against which a relative path is resolved.
Cwd == Root

KindOf(f, p) == IF p = Root THEN "dir" ELSE IF p \in Paths THEN f[p] ELSE "none"

\* fsExists
fsExists(f, p) == KindOf(f, p) # "none"

\* A filesystem: every entry lies in a directory.
ValidFs(f) == \A p \in Paths : f[p] # "none" => KindOf(f, Dirname(p)) = "dir"

Filesystems == {f \in [Paths -> {"none", "file", "dir"}] : ValidFs(f)}

\* fsMkdir(p, { recursive: true }): the missing directories down to p.
MkdirOk(f, p) ==
  /\ p \in Paths \cup {Root}
  /\ \A k \in 0..Len(p) : KindOf(f, SubSeq(p, 1, k)) \in {"none", "dir"}

fsMkdir(f, p) ==
  [q \in Paths |-> IF \E k \in 1..Len(p) : q = SubSeq(p, 1, k) THEN "dir" ELSE f[q]]

\* fsTouch(p): creates the file when nothing is there.
fsTouch(f, p) == IF f[p] = "none" THEN [f EXCEPT ![p] = "file"] ELSE f

\* The entries at and below src, and where copying src to dst puts one.
Below(f, src) == {p \in Paths : (p = src \/ StartsWithDir(p, src)) /\ f[p] # "none"}

Rebase(p, src, dst) == dst \o SubSeq(p, Len(src) + 1, Len(p))

\* copyFileOrDirectory(src, dst): throws unless src exists, dst is not src or
\* inside it, and dst is free or of src's kind; else dst becomes a copy of src.
copyOk(f, src, dst) ==
  /\ f[src] # "none"
  /\ dst # src /\ ~StartsWithDir(dst, src)
  /\ f[dst] \in {"none", f[src]}

copyFileOrDirectory(f, src, dst) ==
  [q \in Paths |->
     IF \E p \in Below(f, src) : q = Rebase(p, src, dst)
     THEN f[CHOOSE p \in Below(f, src) : q = Rebase(p, src, dst)]
     ELSE f[q]]

\* fsRename(src, dst): as the copy, but a directory in the way must be empty,
\* and src is gone afterwards.
renameOk(f, src, dst) == copyOk(f, src, dst) /\ Below(f, dst) \subseteq {dst}

fsRename(f, src, dst) ==
  LET g == copyFileOrDirectory(f, src, dst)
  IN  [q \in Paths |-> IF q \in Below(f, src) THEN "none" ELSE g[q]]

\* ------------------------------------------------------------- expandStore
expand(rec, p) == (p :> TRUE) @@ rec

shrink_mutDelete(rec, p) == [q \in DOMAIN rec \ {p} |-> rec[q]]

shrink(rec, p) == (p :> FALSE) @@ rec

isExpanded(rec, p) == IF p \in DOMAIN rec THEN rec[p] ELSE FALSE

\* ------------------------------------------------------------- the FileItems
\* A FileItem is known by its fullpath; `directory` is what stat said when it
\* was listed, and `children` exists only when loaded is TRUE.
NullItem == [null |-> TRUE, fullpath |-> Root, directory |-> FALSE]

ItemAt(p) == [null |-> FALSE, fullpath |-> p, directory |-> tree[p].directory]

\* The file names the model's two names stand for: a is a dot file.
FileName(n) == IF n = "a" THEN ".a" ELSE n

\* file.startsWith('.') on the names in use.
Hidden(n) == FileName(n) \in {".a"}

\* localeCompare on the names in use.
NameRank(n) == IF n = "a" THEN 1 ELSE 2

\* A comparator that compares the names alone.
Before_mutNamesOnly(f, a, b) == NameRank(Basename(a)) < NameRank(Basename(b))

\* The comparator of sortFiles: a goes before b.
Before(f, a, b) ==
  IF f[a] = "dir" /\ f[b] # "dir" THEN TRUE
  ELSE IF f[b] = "dir" /\ f[a] # "dir" THEN FALSE
  ELSE NameRank(Basename(a)) < NameRank(Basename(b))

RECURSIVE sortFiles(_, _)
sortFiles(f, S) ==
  IF S = {} THEN <<>>
  ELSE LET m == CHOOSE x \in S : \A y \in S \ {x} : Before(f, x, y)
       IN  <<m>> \o sortFiles(f, S \ {m})

\* The entries fsReaddir(path) returns.
fsReaddir(f, path) == {p \in Paths : Dirname(p) = path /\ f[p] # "none"}

\* The entries listFiles(path) keeps: an entry whose own listFiles call throws
\* (a file whose path is marked expanded) is caught and dropped.
Kept(f, rec, path) ==
  {p \in fsReaddir(f, path) : ~(f[p] = "file" /\ isExpanded(rec, p))}

\* listFiles(path, parent): the items it returns, sorted.
listFiles(f, rec, path) == sortFiles(f, Kept(f, rec, path))

\* The FileItems listFiles(path) builds, itself included in the recursion: the
\* kept entries, and below each one marked expanded its own listing.
RECURSIVE Listed(_, _, _)
Listed(f, rec, path) ==
  Kept(f, rec, path) \cup
  UNION {Listed(f, rec, p) : p \in {q \in Kept(f, rec, path) : isExpanded(rec, q)}}

ItemsOf(f, rec, S) ==
  [p \in S |->
     [directory |-> f[p] = "dir",
      hidden |-> Hidden(Basename(p)),
      isFirstInLevel |-> FALSE,
      isLastInLevel |-> FALSE,
      loaded |-> isExpanded(rec, p),
      children |-> IF isExpanded(rec, p) THEN listFiles(f, rec, p) ELSE <<>>]]

\* loadItems(null): clears copyItems and cutItems, then gives the new root
\* items and the FileItems below them.
loadItems_mutAlways(f, rec) ==
  [items |-> listFiles(f, rec, Root), tree |-> ItemsOf(f, rec, Listed(f, rec, Root)),
   copyItems |-> {}, cutItems |-> {}]

loadItems_mutKeepSets(f, rec) ==
  IF isExpanded(rec, Root)
  THEN [items |-> listFiles(f, rec, Root), tree |-> ItemsOf(f, rec, Listed(f, rec, Root)),
        copyItems |-> copyItems, cutItems |-> cutItems]
  ELSE [items |-> <<>>, tree |-> ItemsOf(f, rec, {}),
        copyItems |-> copyItems, cutItems |-> cutItems]

loadItems(f, rec) ==
  IF isExpanded(rec, Root)
  THEN [items |-> listFiles(f, rec, Root), tree |-> ItemsOf(f, rec, Listed(f, rec, Root)),
        copyItems |-> {}, cutItems |-> {}]
  ELSE [items |-> <<>>, tree |-> ItemsOf(f, rec, {}),
        copyItems |-> {}, cutItems |-> {}]

\* getPutTargetDir(item)
getPutTargetDir_mutOwnDir(rec, item) ==
  IF item.null THEN Root
  ELSE IF item.directory THEN item.fullpath
  ELSE IF Len(item.fullpath) > 1 THEN Dirname(item.fullpath)
  ELSE Root

getPutTargetDir(rec, item) ==
  IF item.null THEN Root
  ELSE IF item.directory /\ isExpanded(rec, item.fullpath) THEN item.fullpath
  ELSE IF Len(item.fullpath) > 1 THEN Dirname(item.fullpath)
  ELSE Root

\* ------------------------------------------------------------ the handlers
\* A handler at rest.  item is the action's node argument, input what the user
\* typed, target the path the handler works on, rnode/rgen the FileItem (and the
\* generation of items it belongs to) whose listFiles a reveal awaits.
\* For pasteFile: mode is "copy" or "cut", target the directory pasted into,
\* checks the items whose guardTargetPath has not returned, conflicts those whose
\* guard threw (onError logged it), todo the items not yet copied or moved, log
\* one record per copy or move made, failed whether one of them threw.
\* For delete and deleteForever: nodes is the action's nodes argument, confirmed
\* whether a prompt of this invocation was answered 'yes', log one record per
\* fsTrash / fsRimraf call.
\* For the copyFile, cutFile and pasteFile file actions: type is args[0]
\* ("none" when absent), copied0 and cut0 the two sets of marked nodes when the
\* action started, shown whether window.showMessage was called.
Idle ==
  [name |-> "none", pc |-> "idle", item |-> NullItem, input |-> <<>>,
   target |-> Root, rnode |-> Root, rgen |-> 0, result |-> "none",
   mode |-> "none", checks |-> {}, conflicts |-> {}, todo |-> {}, log |-> <<>>,
   failed |-> FALSE, nodes |-> <<>>, confirmed |-> FALSE,
   type |-> "none", copied0 |-> {}, cut0 |-> {}, shown |-> FALSE]

Ready(h) == h.pc \in {"idle", "done"}

Done(h, result) == [h EXCEPT !.pc = "done", !.result = result]

\* The node arguments an action can be given: no node, or a FileItem of the tree.
Cursors == {NullItem} \cup {ItemAt(p) : p \in DOMAIN tree}

ExpandAll(rec, S) == [p \in S |-> TRUE] @@ rec

\* revealItemByPath(path, items) up to its first await of listFiles: "found"
\* and the item, "null", or "list" and the item whose children must be listed;
\* expanded is every path it marked expanded on the way.
RECURSIVE revealWalk(_, _, _)
revealWalk(tr, list, path) ==
  LET hits == {k \in 1..Len(list) :
                 \/ tr[list[k]].directory /\ StartsWithDir(path, list[k])
                 \/ path = list[k]}
  IN  IF hits = {} THEN [status |-> "null", node |-> Root, expanded |-> {}]
      ELSE LET k == CHOOSE h \in hits : \A j \in hits : h <= j
               item == list[k]
           IN  IF tr[item].directory /\ StartsWithDir(path, item)
               THEN IF ~tr[item].loaded
                    THEN [status |-> "list", node |-> item, expanded |-> {item}]
                    ELSE LET r == revealWalk(tr, tr[item].children, path)
                         IN  [r EXCEPT !.expanded = @ \cup {item}]
               ELSE [status |-> "found", node |-> item, expanded |-> {}]

\* The expandStore.expand calls of a walk, from the top down.
RECURSIVE WalkCalls(_)
WalkCalls(S) ==
  IF S = {} THEN <<>>
  ELSE LET p == CHOOSE x \in S : \A y \in S : Len(x) <= Len(y)
       IN  <<[op |-> "expand", path |-> p]>> \o WalkCalls(S \ {p})

\* The handler after the walk w.
AfterWalk(h, w, g) ==
  LET h1 == [h EXCEPT !.log = @ \o WalkCalls(w.expanded)]
  IN  IF w.status = "list"
      THEN [h1 EXCEPT !.pc = "revealList", !.rnode = w.node, !.rgen = g]
      ELSE Done(h1, IF w.status = "found" THEN "revealed" ELSE "notFound")

\* Handler h calls revealItemByPath(h.target) on this.items.
RevealStart(h, h2) ==
  LET w == revealWalk(tree, items, h.target)
  IN  /\ h2 = AfterWalk(h, w, gen)
      /\ record' = ExpandAll(record, w.expanded)
      /\ UNCHANGED <<fs, items, tree, gen, copyItems, cutItems>>

\* The listFiles that handler h's reveal awaited returns: item.children is
\* assigned and the walk goes on in it.  The item is part of the tree only if
\* items was not replaced meanwhile; else the assignment is to a stale item.
RevealListed(h, h2) ==
  IF KindOf(fs, h.rnode) # "dir"
  THEN /\ h2 = Done(h, "IOError")
       /\ UNCHANGED <<fs, record, items, tree, gen, copyItems, cutItems>>
  ELSE LET children == listFiles(fs, record, h.rnode)
           below == ItemsOf(fs, record, Listed(fs, record, h.rnode))
           w == revealWalk(below, children, h.target)
       IN  /\ h2 = AfterWalk(h, w, h.rgen)
           /\ record' = ExpandAll(record, w.expanded)
           /\ tree' = IF h.rgen = gen
                      THEN below @@ [tree EXCEPT ![h.rnode].loaded = TRUE,
                                                 ![h.rnode].children = children]
                      ELSE tree
           /\ UNCHANGED <<fs, items, gen, copyItems, cutItems>>

\* reload(null): loadItems replaces this.items.
reload ==
  LET l == loadItems(fs, record)
  IN  /\ items' = l.items
      /\ tree' = l.tree
      /\ gen' = gen + 1
      /\ copyItems' = l.copyItems
      /\ cutItems' = l.cutItems
      /\ UNCHANGED <<fs, record>>

\* ------------------------------------------------- onBufEnter: auto-reveal
BufEnter ==
  \E path \in Paths :
    /\ Ready(be)
    /\ ops < MaxOps
    /\ ops' = ops + 1
    /\ be' = [Idle EXCEPT !.name = "bufEnter", !.pc = "reveal", !.target = path]
    /\ UNCHANGED <<fs, record, items, tree, gen, copyItems, cutItems, act>>
    /\ UNCHANGED <<modified, copiedNodes, cutNodes, showHiddenFiles, tvars, vvars>>

BufEnterReveal ==
  /\ be.pc = "reveal"
  /\ RevealStart(be, be')
  /\ UNCHANGED <<act, ops>>
  /\ UNCHANGED <<modified, copiedNodes, cutNodes, showHiddenFiles, tvars, vvars>>

BufEnterListed ==
  /\ be.pc = "revealList"
  /\ RevealListed(be, be')
  /\ UNCHANGED <<act, ops>>
  /\ UNCHANGED <<modified, copiedNodes, cutNodes, showHiddenFiles, tvars, vvars>>

\* ------------------------------------------------------------------ addFile
\* guardTargetPath that lets an existing target through.
guardTargetPath_mutNoThrow(f, path) == FALSE

\* guardTargetPath(path) throws.
guardTargetPath(f, path) == fsExists(f, path)

Start(name, item) ==
  /\ Ready(act)
  /\ ops < MaxOps
  /\ ops' = ops + 1
  /\ act' = [Idle EXCEPT !.name = name, !.pc = "input", !.item = item]
  /\ UNCHANGED <<fs, record, items, tree, gen, copyItems, cutItems, be>>
  /\ UNCHANGED <<modified, copiedNodes, cutNodes, showHiddenFiles, tvars, vvars>>

addFile == \E item \in Cursors : Start("addFile", item)

\* input() returns: the empty name ends the action; else the target is
\* resolved and guarded.
addFileInput ==
  \E filename \in Inputs :
    /\ act.name = "addFile" /\ act.pc = "input"
    /\ LET targetPath == Join(getPutTargetDir(record, act.item), filename)
           h == [act EXCEPT !.input = filename, !.target = targetPath]
       IN  /\ targetPath \in Paths \cup {Root}
           /\ act' = IF filename = <<>> THEN Done(h, "cancelled")
                     ELSE IF guardTargetPath(fs, targetPath) THEN Done(h, "ConflictError")
                     ELSE [h EXCEPT !.pc = "create"]
    /\ UNCHANGED <<fs, record, items, tree, gen, copyItems, cutItems, be, ops>>
    /\ UNCHANGED <<modified, copiedNodes, cutNodes, showHiddenFiles, tvars, vvars>>

\* fsMkdir(dirname(targetPath), recursive) then fsTouch(targetPath)
addFileCreate ==
  /\ act.name = "addFile" /\ act.pc = "create"
  /\ IF MkdirOk(fs, Dirname(act.target))
     THEN /\ fs' = fsTouch(fsMkdir(fs, Dirname(act.target)), act.target)
          /\ act' = [act EXCEPT !.pc = "reload"]
     ELSE /\ fs' = fs
          /\ act' = Done(act, "IOError")
  /\ UNCHANGED <<record, items, tree, gen, copyItems, cutItems, be, ops>>
  /\ UNCHANGED <<modified, copiedNodes, cutNodes, showHiddenFiles, tvars, vvars>>

\* ------------------------------------------------------------- addDirectory
addDirectory == \E item \in Cursors : Start("addDirectory", item)

\* input() returns; the guard looks at the name as typed.
addDirectoryInput ==
  \E directoryPath \in Inputs :
    /\ act.name = "addDirectory" /\ act.pc = "input"
    /\ Join(Cwd, directoryPath) \in Paths \cup {Root}
    /\ Join(act.item.fullpath, directoryPath) \in Paths \cup {Root}
    /\ Join(Dirname(act.item.fullpath), directoryPath) \in Paths \cup {Root}
    /\ LET h == [act EXCEPT !.input = directoryPath]
       IN  act' = IF directoryPath = <<>> THEN Done(h, "cancelled")
                  ELSE IF guardTargetPath(fs, Join(Cwd, directoryPath))
                       THEN Done(h, "ConflictError")
                  ELSE [h EXCEPT !.pc = "create"]
    /\ UNCHANGED <<fs, record, items, tree, gen, copyItems, cutItems, be, ops>>
    /\ UNCHANGED <<modified, copiedNodes, cutNodes, showHiddenFiles, tvars, vvars>>

\* the target is resolved after the guard returned; fsMkdir(targetPath, recursive)
addDirectoryCreate ==
  /\ act.name = "addDirectory" /\ act.pc = "create"
  /\ LET targetPath == Join(getPutTargetDir(record, act.item), act.input)
     IN  IF MkdirOk(fs, targetPath)
         THEN /\ fs' = fsMkdir(fs, targetPath)
              /\ act' = [act EXCEPT !.pc = "reload", !.target = targetPath]
         ELSE /\ fs' = fs
              /\ act' = Done(act, "IOError")
  /\ UNCHANGED <<record, items, tree, gen, copyItems, cutItems, be, ops>>
  /\ UNCHANGED <<modified, copiedNodes, cutNodes, showHiddenFiles, tvars, vvars>>

\* ------------------------------------------------------ copyFile, cutFile
\* The selections an items-action can be given.
Selections == {S \in SUBSET (DOMAIN tree) : S # {} /\ Cardinality(S) <= MaxSel}

Finish(name) ==
  /\ Ready(act)
  /\ ops < MaxOps
  /\ ops' = ops + 1
  /\ act' = Done([Idle EXCEPT !.name = name], "ok")

copyFile ==
  \E sel \in Selections :
    /\ Finish("copyFile")
    /\ copyItems' = sel
    /\ cutItems' = {}
    /\ UNCHANGED <<fs, record, items, tree, gen, be>>
    /\ UNCHANGED <<modified, copiedNodes, cutNodes, showHiddenFiles, tvars, vvars>>

cutFile ==
  \E sel \in Selections :
    /\ Finish("cutFile")
    /\ copyItems' = {}
    /\ cutItems' = sel
    /\ UNCHANGED <<fs, record, items, tree, gen, be>>
    /\ UNCHANGED <<modified, copiedNodes, cutNodes, showHiddenFiles, tvars, vvars>>

\* ---------------------------------------------------------------- pasteFile
\* Where pasting item into dir puts it.
PasteTarget(dir, item) == Join(dir, <<Basename(item)>>)

\* The action starts: the target directory is resolved, checkSameFilename
\* starts one guardTargetPath per item and returns at once (it does not return
\* its promise), and the copies or moves are started.
pasteFile ==
  \E item \in Cursors \ {NullItem} :
    /\ Ready(act)
    /\ ops < MaxOps
    /\ ops' = ops + 1
    /\ LET targetDir == getPutTargetDir(record, item)
           mode == IF copyItems # {} THEN "copy" ELSE IF cutItems # {} THEN "cut" ELSE "none"
           nodes == IF copyItems # {} THEN copyItems ELSE cutItems
           h == [Idle EXCEPT !.name = "pasteFile", !.item = item, !.target = targetDir,
                             !.mode = mode]
       IN  /\ \A n \in nodes : \A p \in Below(fs, n) :
                Rebase(p, n, PasteTarget(targetDir, n)) \in Paths
           /\ act' = IF mode = "none" THEN Done(h, "ok")
                     ELSE [h EXCEPT !.pc = "paste", !.checks = nodes, !.todo = nodes]
    /\ UNCHANGED <<fs, record, items, tree, gen, copyItems, cutItems, be>>
    /\ UNCHANGED <<modified, copiedNodes, cutNodes, showHiddenFiles, tvars, vvars>>

\* One guardTargetPath returns; if it throws, onError logs it.
pasteFileCheck ==
  \E n \in act.checks :
    /\ act.name = "pasteFile"
    /\ act' = [act EXCEPT
                 !.checks = @ \ {n},
                 !.conflicts = IF guardTargetPath(fs, PasteTarget(act.target, n))
                               THEN @ \cup {n} ELSE @]
    /\ UNCHANGED <<fs, record, items, tree, gen, copyItems, cutItems, be, ops>>
    /\ UNCHANGED <<modified, copiedNodes, cutNodes, showHiddenFiles, tvars, vvars>>

\* One copyFileOrDirectory / fsRename runs.
pasteFileOne ==
  \E n \in act.todo :
    /\ act.name = "pasteFile" /\ act.pc = "paste"
    /\ LET dst == PasteTarget(act.target, n)
           ok == IF act.mode = "copy" THEN copyOk(fs, n, dst) ELSE renameOk(fs, n, dst)
           entry == [source |-> n, target |-> dst, existed |-> fsExists(fs, dst),
                     checked |-> act.checks = {},
                     rejected |-> n \in act.conflicts]
       IN  /\ fs' = IF ~ok THEN fs
                    ELSE IF act.mode = "copy" THEN copyFileOrDirectory(fs, n, dst)
                    ELSE fsRename(fs, n, dst)
           /\ act' = [act EXCEPT !.todo = @ \ {n}, !.log = Append(@, entry),
                                 !.failed = @ \/ ~ok]
    /\ UNCHANGED <<record, items, tree, gen, copyItems, cutItems, be, ops>>
    /\ UNCHANGED <<modified, copiedNodes, cutNodes, showHiddenFiles, tvars, vvars>>

\* Promise.all returns: the set pasted from is cleared and the tree reloaded,
\* unless a copy or move threw.
pasteFileDone ==
  /\ act.name = "pasteFile" /\ act.pc = "paste" /\ act.todo = {}
  /\ IF act.failed
     THEN /\ act' = Done(act, "IOError")
          /\ UNCHANGED <<copyItems, cutItems>>
     ELSE /\ act' = [act EXCEPT !.pc = "reload"]
          /\ copyItems' = IF act.mode = "copy" THEN {} ELSE copyItems
          /\ cutItems' = IF act.mode = "cut" THEN {} ELSE cutItems
  /\ UNCHANGED <<fs, record, items, tree, gen, be, ops>>
  /\ UNCHANGED <<modified, copiedNodes, cutNodes, showHiddenFiles, tvars, vvars>>

\* ------------------------------------------- reload and reveal of an action
ActionReload ==
  /\ act.pc = "reload"
  /\ reload
  /\ act' = IF act.name \in {"addFile", "addDirectory"}
            THEN [act EXCEPT !.pc = "reveal"]
            ELSE Done(act, "ok")
  /\ UNCHANGED <<be, ops>>
  /\ UNCHANGED <<modified, copiedNodes, cutNodes, showHiddenFiles, tvars, vvars>>

ActionReveal ==
  /\ act.pc = "reveal"
  /\ RevealStart(act, act')
  /\ UNCHANGED <<be, ops>>
  /\ UNCHANGED <<modified, copiedNodes, cutNodes, showHiddenFiles, tvars, vvars>>

ActionListed ==
  /\ act.pc = "revealList"
  /\ RevealListed(act, act')
  /\ UNCHANGED <<be, ops>>
  /\ UNCHANGED <<modified, copiedNodes, cutNodes, showHiddenFiles, tvars, vvars>>

\* ------------------------------------- delete, deleteForever (file actions)
\* The nodes arguments a nodes-action can be given: the selected nodes in order.
NodeLists ==
  {l \in UNION {[1..n -> DOMAIN tree] : n \in 1..MaxSel} :
     \A i \in DOMAIN l : \A j \in DOMAIN l : l[i] = l[j] => i = j}

Range(l) == {l[i] : i \in DOMAIN l}

\* bufManager.modified(fullpath, { directory })
bufModified(m, p, directory) ==
  \E b \in m : b = p \/ (directory /\ StartsWithDir(b, p))

\* bufManager.remove(fullpath, { skipModified: true, bwipeout: true, directory })
bufRemove(m, p) == {b \in m : ~(b = p \/ StartsWithDir(b, p))}

\* fsTrash(paths) / fsRimraf(path): the entries and all below them are gone.
fsRemove(f, S) ==
  [q \in Paths |-> IF \E p \in S : q = p \/ StartsWithDir(q, p) THEN "none" ELSE f[q]]

\* The action `name` starts with `nodes`: the discard prompt comes first when a
\* node's buffer is modified.
StartNodes(name, nodes, next) ==
  /\ Ready(act)
  /\ ops < MaxOps
  /\ ops' = ops + 1
  /\ act' = [Idle EXCEPT
               !.name = name, !.nodes = nodes,
               !.pc = IF \E i \in DOMAIN nodes :
                           bufModified(modified, nodes[i], tree[nodes[i]].directory)
                      THEN "promptDiscard" ELSE next]
  /\ UNCHANGED <<fs, record, items, tree, gen, copyItems, cutItems, be, modified>>
  /\ UNCHANGED <<copiedNodes, cutNodes, showHiddenFiles, tvars, vvars>>

\* prompt(...) returns.
Answer(at, next) ==
  \E answer \in {"yes", "no"} :
    /\ act.pc = at
    /\ act' = IF answer = "yes" THEN [act EXCEPT !.pc = next, !.confirmed = TRUE]
              ELSE Done(act, "cancelled")
    /\ UNCHANGED <<fs, record, items, tree, gen, copyItems, cutItems, be, modified, ops>>
    /\ UNCHANGED <<copiedNodes, cutNodes, showHiddenFiles, tvars, vvars>>

delete == \E nodes \in NodeLists : StartNodes("delete", nodes, "trash")

deleteDiscard == act.name = "delete" /\ Answer("promptDiscard", "trash")

\* fsTrash(all paths), then bufManager.remove for each node.
deleteTrash ==
  \E ok \in BOOLEAN :
    /\ act.name = "delete" /\ act.pc = "trash"
    /\ LET entry == [op |-> "trash", targets |-> Range(act.nodes),
                     confirmed |-> act.confirmed, ok |-> ok]
       IN  act' = IF ok THEN [act EXCEPT !.pc = "reload", !.log = Append(@, entry)]
                  ELSE Done([act EXCEPT !.log = Append(@, entry)], "IOError")
    /\ fs' = IF ok THEN fsRemove(fs, Range(act.nodes)) ELSE fs
    /\ modified' = IF ok THEN {b \in modified : \A p \in Range(act.nodes) :
                                                  b \in bufRemove(modified, p)}
                   ELSE modified
    /\ UNCHANGED <<record, items, tree, gen, copyItems, cutItems, be, ops>>
    /\ UNCHANGED <<copiedNodes, cutNodes, showHiddenFiles, tvars, vvars>>

deleteForever == \E nodes \in NodeLists : StartNodes("deleteForever", nodes, "promptDelete")

deleteForeverDiscard == act.name = "deleteForever" /\ Answer("promptDiscard", "promptDelete")

deleteForeverConfirm == act.name = "deleteForever" /\ Answer("promptDelete", "rimraf")

\* One round of the loop: fsRimraf(node.fullpath), then bufManager.remove; a
\* throw of fsRimraf leaves the loop and the action.
deleteForeverOne ==
  \E ok \in BOOLEAN :
    /\ act.name = "deleteForever" /\ act.pc = "rimraf"
    /\ LET node == act.nodes[Len(act.log) + 1]
           entry == [op |-> "rimraf", targets |-> {node},
                     confirmed |-> act.confirmed, ok |-> ok]
           h == [act EXCEPT !.log = Append(@, entry)]
       IN  /\ act' = IF ~ok THEN Done(h, "IOError")
                     ELSE IF Len(h.log) = Len(act.nodes) THEN [h EXCEPT !.pc = "reload"]
                     ELSE h
           /\ fs' = IF ok THEN fsRemove(fs, {node}) ELSE fs
           /\ modified' = IF ok THEN bufRemove(modified, node) ELSE modified
    /\ UNCHANGED <<record, items, tree, gen, copyItems, cutItems, be, ops>>
    /\ UNCHANGED <<copiedNodes, cutNodes, showHiddenFiles, tvars, vvars>>

\* The option { reload: true }: the source is loaded again after the action.
load ==
  /\ act.pc = "reload"
  /\ items' = loadItems(fs, record).items
  /\ tree' = loadItems(fs, record).tree
  /\ gen' = gen + 1
  /\ act' = Done(act, "ok")
  /\ UNCHANGED <<fs, record, copyItems, cutItems, be, modified, ops>>
  /\ UNCHANGED <<copiedNodes, cutNodes, showHiddenFiles, tvars, vvars>>

\* ----------------------------------------- copyFile, cutFile (file actions)
copyOrCutFileTypeList == {"toggle", "append", "replace"}

\* The type argument an action is called with: "none" when args[0] is absent.
TypeArgs(list) == list \cup {"none"}

\* args[0] ?? 'toggle'
CopyOrCutFileType(arg) == IF arg = "none" THEN "toggle" ELSE arg

\* What copyFile / cutFile make of the set they mark in (copiedNodes for
\* copyFile, cutNodes for cutFile).
Mark_mutToggleAppends(set, nodes, type) ==
  IF type = "replace" THEN Range(nodes) ELSE set \cup Range(nodes)

Mark(set, nodes, type) ==
  IF type = "replace" THEN Range(nodes)
  ELSE IF type = "toggle" THEN (set \ Range(nodes)) \cup (Range(nodes) \ set)
  ELSE IF type = "append" THEN set \cup Range(nodes)
  ELSE set

\* What copyFile / cutFile make of the other set.
Unmark_mutKeep(set, type) == set

Unmark_mutAlways(set, type) == {}

Unmark(set, type) == IF type = "replace" THEN {} ELSE set

\* The place of a path in the view: an item comes before its children, and
\* these before its next sibling.
PathRank(p) ==
  IF Len(p) = 1 THEN 3 * NameRank(p[1]) ELSE 3 * NameRank(p[1]) + NameRank(p[2])

\* The selected nodes S as the nodes argument: in the order of the view.
RECURSIVE InOrder(_)
InOrder(S) ==
  IF S = {} THEN <<>>
  ELSE LET m == CHOOSE x \in S : \A y \in S : PathRank(x) <= PathRank(y)
       IN  <<m>> \o InOrder(S \ {m})

\* A nodes action with a type argument that runs in one step.
FinishNodes(name, nodes, arg) ==
  /\ Ready(act)
  /\ ops < MaxActions
  /\ ops' = ops + 1
  /\ act' = Done([Idle EXCEPT !.name = name, !.nodes = nodes, !.type = arg,
                              !.copied0 = copiedNodes, !.cut0 = cutNodes], "ok")
  /\ UNCHANGED <<fs, record, items, tree, gen, copyItems, cutItems, be, modified>>
  /\ UNCHANGED <<showHiddenFiles, tvars, vvars>>

copyFileAction ==
  \E S \in Selections : \E arg \in TypeArgs(copyOrCutFileTypeList) :
    LET nodes == InOrder(S) IN
    /\ FinishNodes("copyFile", nodes, arg)
    /\ copiedNodes' = Mark(copiedNodes, nodes, CopyOrCutFileType(arg))
    /\ cutNodes' = Unmark(cutNodes, CopyOrCutFileType(arg))

cutFileAction ==
  \E S \in Selections : \E arg \in TypeArgs(copyOrCutFileTypeList) :
    LET nodes == InOrder(S) IN
    /\ FinishNodes("cutFile", nodes, arg)
    /\ cutNodes' = Mark(cutNodes, nodes, CopyOrCutFileType(arg))
    /\ copiedNodes' = Unmark(copiedNodes, CopyOrCutFileType(arg))

\* --------------------------------------------------- pasteFile (file action)
pasteFileTypeList == {"keepCopy", "clear"}

\* args[0] ?? 'keepCopy'
PasteFileType(arg) == IF arg = "none" THEN "keepCopy" ELSE arg

\* What the user answers when overwritePrompt finds the target of a pair.
OverwriteAnswers == {"confirm", "skip", "abort"}

\* overwritePrompt applies fn to one pair.  A free target: fn is called.  An
\* existing target: the user confirms (the target is replaced), skips the pair,
\* or aborts the batch.  h is the handler, op "copy" (fsCopyFileRecursive) or
\* "move" (fsRename), n the source.  The log entry tells whether the source and
\* the target exist afterwards.
overwritePrompt(h, op, n, answer) ==
  LET dst == PasteTarget(h.target, n)
      existed == fsExists(fs, dst)
      applied == ~existed \/ answer = "confirm"
      f0 == IF existed /\ applied THEN fsRemove(fs, {dst}) ELSE fs
      ok == applied /\ (IF op = "copy" THEN copyOk(f0, n, dst) ELSE renameOk(f0, n, dst))
      f1 == IF ~ok THEN f0
            ELSE IF op = "copy" THEN copyFileOrDirectory(f0, n, dst)
            ELSE fsRename(f0, n, dst)
      entry == [op |-> op, source |-> n, target |-> dst, existed |-> existed,
                outcome |-> IF applied THEN "applied" ELSE answer, ok |-> ok,
                sourceAfter |-> fsExists(f1, n), targetAfter |-> fsExists(f1, dst)]
  IN  /\ fs' = f1
      /\ act' = [h EXCEPT !.log = Append(@, entry),
                          !.todo = IF existed /\ answer = "abort" THEN {} ELSE @ \ {n}]

\* Every entry a paste of the nodes S into dir can write lies in the model's
\* path universe.
Pastable(S, dir) ==
  \A n \in S : \A p \in Below(fs, n) \cup {n} : Rebase(p, n, PasteTarget(dir, n)) \in Paths

\* The action starts: an empty clipboard is reported, otherwise the target
\* directory is resolved and the first batch handed to overwritePrompt.
pasteFileAction ==
  \E node \in Cursors \ {NullItem} : \E arg \in TypeArgs(pasteFileTypeList) :
    /\ Ready(act)
    /\ ops < MaxActions
    /\ ops' = ops + 1
    /\ LET targetDir == getPutTargetDir(record, node)
           h == [Idle EXCEPT !.name = "pasteFile", !.item = node, !.type = arg,
                             !.copied0 = copiedNodes, !.cut0 = cutNodes]
       IN  /\ Pastable(copiedNodes \cup cutNodes, targetDir)
           /\ act' = IF copiedNodes = {} /\ cutNodes = {}
                     THEN Done([h EXCEPT !.shown = TRUE], "message")
                     ELSE IF copiedNodes # {}
                     THEN [h EXCEPT !.target = targetDir, !.pc = "copy", !.todo = copiedNodes]
                     ELSE [h EXCEPT !.target = targetDir, !.pc = "cut", !.todo = cutNodes]
    /\ UNCHANGED <<fs, record, items, tree, gen, copyItems, cutItems, be, modified>>
    /\ UNCHANGED <<copiedNodes, cutNodes, showHiddenFiles, tvars, vvars>>

\* overwritePrompt('paste', ..., fsCopyFileRecursive) takes its next pair.
pasteFileCopy ==
  \E n \in act.todo : \E answer \in OverwriteAnswers :
    /\ act.name = "pasteFile" /\ act.pc = "copy"
    /\ overwritePrompt(act, "copy", n, answer)
    /\ UNCHANGED <<record, items, tree, gen, copyItems, cutItems, be, modified, ops>>
    /\ UNCHANGED <<copiedNodes, cutNodes, showHiddenFiles, tvars, vvars>>

\* The overwritePrompt of the copied nodes returned: copiedNodes is cleared if
\* the type is 'clear', and the cut nodes come next.
pasteFileCopied_mutElseIf ==
  /\ act.name = "pasteFile" /\ act.pc = "copy" /\ act.todo = {}
  /\ copiedNodes' = IF PasteFileType(act.type) = "clear" THEN {} ELSE copiedNodes
  /\ act' = [act EXCEPT !.pc = "reload"]
  /\ UNCHANGED <<fs, record, items, tree, gen, copyItems, cutItems, be, modified, ops>>
  /\ UNCHANGED <<cutNodes, showHiddenFiles, tvars, vvars>>

pasteFileCopied ==
  /\ act.name = "pasteFile" /\ act.pc = "copy" /\ act.todo = {}
  /\ copiedNodes' = IF PasteFileType(act.type) = "clear" THEN {} ELSE copiedNodes
  /\ act' = IF cutNodes # {} THEN [act EXCEPT !.pc = "cut", !.todo = cutNodes]
            ELSE [act EXCEPT !.pc = "reload"]
  /\ UNCHANGED <<fs, record, items, tree, gen, copyItems, cutItems, be, modified, ops>>
  /\ UNCHANGED <<cutNodes, showHiddenFiles, tvars, vvars>>

\* overwritePrompt('paste', ..., fsRename) takes its next pair.
pasteFileMove ==
  \E n \in act.todo : \E answer \in OverwriteAnswers :
    /\ act.name = "pasteFile" /\ act.pc = "cut"
    /\ overwritePrompt(act, "move", n, answer)
    /\ UNCHANGED <<record, items, tree, gen, copyItems, cutItems, be, modified, ops>>
    /\ UNCHANGED <<copiedNodes, cutNodes, showHiddenFiles, tvars, vvars>>

\* The overwritePrompt of the cut nodes returned: cutNodes is cleared.
pasteFileMoved ==
  /\ act.name = "pasteFile" /\ act.pc = "cut" /\ act.todo = {}
  /\ cutNodes' = {}
  /\ act' = [act EXCEPT !.pc = "reload"]
  /\ UNCHANGED <<fs, record, items, tree, gen, copyItems, cutItems, be, modified, ops>>
  /\ UNCHANGED <<copiedNodes, showHiddenFiles, tvars, vvars>>

\* ------------------------------------------------ expand and shrink actions
\* For these actions the handler's log holds the expandStore calls it made.
StoreCall(op, p) == [op |-> op, path |-> p]

\* An expand or shrink action starts.
StartLoading ==
  /\ Ready(act)
  /\ ops < MaxActions
  /\ ops' = ops + 1

\* The root action 'expand': expandStore.expand(this.root), then reload.
rootExpand ==
  /\ StartLoading
  /\ record' = expand(record, Root)
  /\ act' = [Idle EXCEPT !.name = "rootExpand", !.pc = "reload",
                         !.log = <<StoreCall("expand", Root)>>]
  /\ UNCHANGED <<fs, items, tree, gen, copyItems, cutItems, be>>
  /\ UNCHANGED <<modified, copiedNodes, cutNodes, showHiddenFiles, tvars, vvars>>

\* The root action 'shrink': expandStore.shrink(this.root), then reload.
rootShrink ==
  /\ StartLoading
  /\ record' = shrink(record, Root)
  /\ act' = [Idle EXCEPT !.name = "rootShrink", !.pc = "reload",
                         !.log = <<StoreCall("shrink", Root)>>]
  /\ UNCHANGED <<fs, items, tree, gen, copyItems, cutItems, be>>
  /\ UNCHANGED <<modified, copiedNodes, cutNodes, showHiddenFiles, tvars, vvars>>

\* expandRecursive(item) of the expand action up to its next await: the item is
\* marked expanded; if it has no children yet they must be listed ("list"),
\* else a single child directory is expanded in turn when
\* file.autoExpandSingleDirectory (auto) is set.
\* An expandRecursive that lists the children whether the item has them or not.
expandRecursive_mutRelist(tr, p, auto) ==
  [status |-> "list", node |-> p, calls |-> <<[op |-> "expand", path |-> p]>>]

RECURSIVE expandRecursive(_, _, _)
expandRecursive(tr, p, auto) ==
  IF ~tr[p].loaded
  THEN [status |-> "list", node |-> p, calls |-> <<StoreCall("expand", p)>>]
  ELSE IF Len(tr[p].children) = 1 /\ tr[tr[p].children[1]].directory /\ auto
  THEN LET r == expandRecursive(tr, tr[p].children[1], auto)
       IN  [r EXCEPT !.calls = <<StoreCall("expand", p)>> \o @]
  ELSE [status |-> "done", node |-> p, calls |-> <<StoreCall("expand", p)>>]

\* The store after the calls.
RECURSIVE Applied(_, _)
Applied(rec, cs) ==
  IF cs = <<>> THEN rec
  ELSE Applied(IF Head(cs).op = "expand" THEN expand(rec, Head(cs).path)
               ELSE shrink(rec, Head(cs).path),
               Tail(cs))

\* The handler after expandRecursive stopped with r.
AfterExpand(h, r, g) ==
  LET h1 == [h EXCEPT !.log = @ \o r.calls]
  IN  IF r.status = "list"
      THEN [h1 EXCEPT !.pc = "expandList", !.rnode = r.node, !.rgen = g]
      ELSE Done(h1, "ok")

\* The item action 'expand'.
expandAction ==
  \E item \in Cursors \ {NullItem} : \E auto \in BOOLEAN :
    /\ StartLoading
    /\ LET h == [Idle EXCEPT !.name = "expand", !.item = item]
           r == expandRecursive(tree, item.fullpath, auto)
       IN  IF item.directory
           THEN /\ act' = AfterExpand(h, r, gen)
                /\ record' = Applied(record, r.calls)
           ELSE /\ act' = Done(h, "open")
                /\ UNCHANGED record
    /\ UNCHANGED <<fs, items, tree, gen, copyItems, cutItems, be>>
    /\ UNCHANGED <<modified, copiedNodes, cutNodes, showHiddenFiles, tvars, vvars>>

\* The listFiles the expand action awaited returns: item.children is assigned,
\* and expandRecursive goes on with it.
expandListed ==
  \E auto \in BOOLEAN :
    /\ act.name = "expand" /\ act.pc = "expandList"
    /\ IF KindOf(fs, act.rnode) # "dir"
       THEN /\ act' = Done(act, "IOError")
            /\ UNCHANGED <<record, tree>>
       ELSE LET children == listFiles(fs, record, act.rnode)
                below == ItemsOf(fs, record, Listed(fs, record, act.rnode))
                tr == below @@ [tree EXCEPT ![act.rnode].loaded = TRUE,
                                            ![act.rnode].children = children]
                r == expandRecursive(tr, act.rnode, auto)
                next == [r EXCEPT !.calls = Tail(@)]
            IN  /\ act' = AfterExpand(act, next, act.rgen)
                /\ record' = Applied(record, next.calls)
                /\ tree' = IF act.rgen = gen THEN tr ELSE tree
    /\ UNCHANGED <<fs, items, gen, copyItems, cutItems, be, ops>>
    /\ UNCHANGED <<modified, copiedNodes, cutNodes, showHiddenFiles, tvars, vvars>>

\* The item action 'shrink': an expanded directory is shrunk itself, any other
\* item's parent is, and an item without parent runs the root action.
shrinkAction ==
  \E item \in Cursors \ {NullItem} :
    /\ StartLoading
    /\ LET own == item.directory /\ isExpanded(record, item.fullpath)
           path == IF own THEN item.fullpath
                   ELSE IF Len(item.fullpath) > 1 THEN Dirname(item.fullpath)
                   ELSE Root
           h == [Idle EXCEPT !.name = "shrink", !.item = item,
                             !.log = <<StoreCall("shrink", path)>>]
       IN  /\ record' = shrink(record, path)
           /\ act' = IF own \/ Len(item.fullpath) > 1 THEN Done(h, "ok")
                     ELSE [h EXCEPT !.pc = "reload"]
    /\ UNCHANGED <<fs, items, tree, gen, copyItems, cutItems, be>>
    /\ UNCHANGED <<modified, copiedNodes, cutNodes, showHiddenFiles, tvars, vvars>>

\* opened(): the path to reveal is revealed with revealItemByPath.
opened ==
  \E path \in Paths :
    /\ StartLoading
    /\ act' = [Idle EXCEPT !.name = "opened", !.pc = "reveal", !.target = path]
    /\ UNCHANGED <<fs, record, items, tree, gen, copyItems, cutItems, be>>
    /\ UNCHANGED <<modified, copiedNodes, cutNodes, showHiddenFiles, tvars, vvars>>

\* ------------------------------------------ expandRecursive, shrinkRecursive
\* expandRecursiveItems(items) up to its awaits: every directory of the list
\* is marked expanded; one without children waits for its listFiles, one with
\* children goes on into them.
\* An expandRecursiveItems that does not go on into the children an item has.
expandRecursiveItems_mutFlat(tr, list) ==
  LET dirs == SelectSeq(list, LAMBDA p : tr[p].directory)
  IN  [calls |-> [k \in 1..Len(dirs) |-> [op |-> "expand", path |-> dirs[k]]],
       waiting |-> {dirs[k] : k \in {j \in 1..Len(dirs) : ~tr[dirs[j]].loaded}}]

RECURSIVE expandRecursiveItems(_, _)
expandRecursiveItems(tr, list) ==
  IF list = <<>> THEN [calls |-> <<>>, waiting |-> {}]
  ELSE LET item == Head(list)
           rest == expandRecursiveItems(tr, Tail(list))
           own == IF ~tr[item].directory THEN [calls |-> <<>>, waiting |-> {}]
                  ELSE IF ~tr[item].loaded
                  THEN [calls |-> <<StoreCall("expand", item)>>, waiting |-> {item}]
                  ELSE LET r == expandRecursiveItems(tr, tr[item].children)
                       IN  [calls |-> <<StoreCall("expand", item)>> \o r.calls,
                            waiting |-> r.waiting]
       IN  [calls |-> own.calls \o rest.calls,
            waiting |-> own.waiting \cup rest.waiting]

\* shrinkRecursiveItems(items): every directory of the list is marked
\* collapsed, and so are the directories among the children it has.
RECURSIVE shrinkRecursiveItems(_, _)
shrinkRecursiveItems(tr, list) ==
  IF list = <<>> THEN <<>>
  ELSE LET item == Head(list)
           own == IF ~tr[item].directory THEN <<>>
                  ELSE <<StoreCall("shrink", item)>> \o
                       (IF tr[item].loaded
                        THEN shrinkRecursiveItems(tr, tr[item].children)
                        ELSE <<>>)
       IN  own \o shrinkRecursiveItems(tr, Tail(list))

\* The handler after a part of expandRecursiveItems ran with r.
AfterExpandItems(h, r, g) ==
  LET h1 == [h EXCEPT !.log = @ \o r.calls, !.todo = @ \cup r.waiting, !.rgen = g]
  IN  IF h1.todo = {} THEN Done(h1, "ok") ELSE [h1 EXCEPT !.pc = "expandItems"]

\* The root action 'expandRecursive': expandStore.expand(this.root), then the
\* reload it awaits.
rootExpandRecursive ==
  /\ StartLoading
  /\ record' = expand(record, Root)
  /\ act' = [Idle EXCEPT !.name = "rootExpandRecursive", !.pc = "reloadItems",
                         !.log = <<StoreCall("expand", Root)>>]
  /\ UNCHANGED <<fs, items, tree, gen, copyItems, cutItems, be>>
  /\ UNCHANGED <<modified, copiedNodes, cutNodes, showHiddenFiles, tvars, vvars>>

\* The reload returns, and expandRecursiveItems(this.items) starts.
rootExpandRecursiveReloaded ==
  /\ act.pc = "reloadItems"
  /\ LET l == loadItems(fs, record)
         r == expandRecursiveItems(l.tree, l.items)
     IN  /\ items' = l.items
         /\ tree' = l.tree
         /\ gen' = gen + 1
         /\ copyItems' = l.copyItems
         /\ cutItems' = l.cutItems
         /\ record' = Applied(record, r.calls)
         /\ act' = AfterExpandItems(act, r, gen + 1)
  /\ UNCHANGED <<fs, be, ops>>
  /\ UNCHANGED <<modified, copiedNodes, cutNodes, showHiddenFiles, tvars, vvars>>

\* The item action 'expandRecursive': expandRecursiveItems([item]).
expandRecursiveAction ==
  \E item \in Cursors \ {NullItem} :
    /\ StartLoading
    /\ LET h == [Idle EXCEPT !.name = "expandRecursive", !.item = item]
           r == expandRecursiveItems(tree, <<item.fullpath>>)
       IN  /\ act' = AfterExpandItems(h, r, gen)
           /\ record' = Applied(record, r.calls)
    /\ UNCHANGED <<fs, items, tree, gen, copyItems, cutItems, be>>
    /\ UNCHANGED <<modified, copiedNodes, cutNodes, showHiddenFiles, tvars, vvars>>

\* One listFiles that expandRecursiveItems awaited returns: item.children is
\* assigned and expandRecursiveItems(item.children) starts.
expandRecursiveListed ==
  \E n \in act.todo :
    /\ act.pc = "expandItems"
    /\ IF KindOf(fs, n) # "dir"
       THEN /\ act' = Done(act, "IOError")
            /\ UNCHANGED <<record, tree>>
       ELSE LET children == listFiles(fs, record, n)
                below == ItemsOf(fs, record, Listed(fs, record, n))
                tr == below @@ [tree EXCEPT ![n].loaded = TRUE,
                                            ![n].children = children]
                r == expandRecursiveItems(tr, children)
            IN  /\ act' = AfterExpandItems([act EXCEPT !.todo = @ \ {n}], r, act.rgen)
                /\ record' = Applied(record, r.calls)
                /\ tree' = IF act.rgen = gen THEN tr ELSE tree
    /\ UNCHANGED <<fs, items, gen, copyItems, cutItems, be, ops>>
    /\ UNCHANGED <<modified, copiedNodes, cutNodes, showHiddenFiles, tvars, vvars>>

\* The root action 'shrinkRecursive': expandStore.shrink(this.root), then
\* shrinkRecursiveItems(this.items).
rootShrinkRecursiveCalls(tr, list) ==
  <<StoreCall("shrink", Root)>> \o shrinkRecursiveItems(tr, list)

rootShrinkRecursive ==
  /\ StartLoading
  /\ LET cs == rootShrinkRecursiveCalls(tree, items)
     IN  /\ record' = Applied(record, cs)
         /\ act' = Done([Idle EXCEPT !.name = "rootShrinkRecursive", !.log = cs], "ok")
  /\ UNCHANGED <<fs, items, tree, gen, copyItems, cutItems, be>>
  /\ UNCHANGED <<modified, copiedNodes, cutNodes, showHiddenFiles, tvars, vvars>>

\* The item action 'shrinkRecursive': an expanded directory is shrunk with all
\* below it, any other item's parent is, and an item without parent runs the
\* root action.
shrinkRecursiveAction ==
  \E item \in Cursors \ {NullItem} :
    /\ StartLoading
    /\ LET own == item.directory /\ isExpanded(record, item.fullpath)
           parent == Dirname(item.fullpath)
           cs == IF own THEN shrinkRecursiveItems(tree, <<item.fullpath>>)
                 ELSE IF Len(item.fullpath) > 1
                 THEN <<StoreCall("shrink", parent)>> \o
                      (IF tree[parent].loaded
                       THEN shrinkRecursiveItems(tree, tree[parent].children)
                       ELSE <<>>)
                 ELSE rootShrinkRecursiveCalls(tree, items)
           h == [Idle EXCEPT !.name = "shrinkRecursive", !.item = item,
                             !.target = IF own THEN item.fullpath
                                        ELSE IF Len(item.fullpath) > 1 THEN parent
                                        ELSE Root,
                             !.log = cs]
       IN  /\ record' = Applied(record, cs)
           /\ act' = Done(h, "ok")
    /\ UNCHANGED <<fs, items, tree, gen, copyItems, cutItems, be>>
    /\ UNCHANGED <<modified, copiedNodes, cutNodes, showHiddenFiles, tvars, vvars>>

\* --------------------------------------------------------------------- draw
\* The items of a list that draw shows.
filteredItems_mutAll(tr, show, list) == list

filteredItems(tr, show, list) ==
  IF show THEN list ELSE SelectSeq(list, LAMBDA p : ~tr[p].hidden)

\* The flags that mark the first and the last item of a list.
levelFlags_mutUnfiltered(tr, list, filtered) ==
  [p \in DOMAIN tr |->
     IF p \in {list[k] : k \in 1..Len(list)}
     THEN [tr[p] EXCEPT !.isFirstInLevel = (p = list[1]),
                        !.isLastInLevel = (p = list[Len(list)])]
     ELSE tr[p]]

\* drawSubDirectory clears the flags of every item of the list, then sets
\* isFirstInLevel on the first and isLastInLevel on the last item shown.
levelFlags(tr, list, filtered) ==
  [p \in DOMAIN tr |->
     IF p \in {list[k] : k \in 1..Len(list)}
     THEN [tr[p] EXCEPT
             !.isFirstInLevel = (filtered # <<>> /\ p = filtered[1]),
             !.isLastInLevel = (filtered # <<>> /\ p = filtered[Len(filtered)])]
     ELSE tr[p]]

\* Whether draw goes on into the children of an item.
drawsChildren_mutLoaded(tr, rec, item) == tr[item].loaded

drawsChildren(tr, rec, item) == isExpanded(rec, item) /\ tr[item].loaded

\* drawSubDirectory(items): the items drawn with builder.newItem, in order, and
\* the FileItems with their flags.  drawItems is its loop over the items shown.
RECURSIVE drawSubDirectory(_, _, _, _)
RECURSIVE drawItems(_, _, _, _)
drawSubDirectory(tr, rec, show, list) ==
  LET filtered == filteredItems(tr, show, list)
  IN  drawItems(levelFlags(tr, list, filtered), rec, show, filtered)

drawItems(tr, rec, show, filtered) ==
  IF filtered = <<>> THEN [rows |-> <<>>, tree |-> tr]
  ELSE LET item == Head(filtered)
           sub == IF drawsChildren(tr, rec, item)
                  THEN drawSubDirectory(tr, rec, show, tr[item].children)
                  ELSE [rows |-> <<>>, tree |-> tr]
           rest == drawItems(sub.tree, rec, show, Tail(filtered))
       IN  [rows |-> <<item>> \o sub.rows \o rest.rows, tree |-> rest.tree]

\* draw(builder): the items below the root row.
draw(its, tr, rec, show) ==
  IF isExpanded(rec, Root) THEN drawSubDirectory(tr, rec, show, its)
  ELSE [rows |-> <<>>, tree |-> tr]

\* A render of the source: draw runs on the items as they are.
render ==
  /\ Ready(act)
  /\ LET d == draw(items, tree, record, showHiddenFiles)
     IN  /\ tree' = d.tree
         /\ act' = Done([Idle EXCEPT !.name = "draw", !.nodes = d.rows], "ok")
  /\ UNCHANGED <<fs, record, items, gen, copyItems, cutItems, be, ops>>
  /\ UNCHANGED <<modified, copiedNodes, cutNodes, showHiddenFiles, tvars, vvars>>

\* The action 'toggleHidden'.
toggleHidden ==
  /\ StartLoading
  /\ showHiddenFiles' = ~showHiddenFiles
  /\ act' = Done([Idle EXCEPT !.name = "toggleHidden"], "ok")
  /\ UNCHANGED <<fs, record, items, tree, gen, copyItems, cutItems, be>>
  /\ UNCHANGED <<modified, copiedNodes, cutNodes, tvars, vvars>>

\* ------------------------------------------------------------ ViewExplorer
\* The node at index k of source i's flattened sequence; what a lookup that
\* finds nothing returns.
Node(i, k) == [source |-> i, index |-> k]

undefined == [source |-> 0, index |-> 0]

\* The views of the sources after a render that flattened counts[i] nodes for
\* source i: the ranges follow one another from line 0 on, in registration
\* order.
RECURSIVE Offset(_, _)
Offset(counts, i) == IF i = 1 THEN 0 ELSE Offset(counts, i - 1) + counts[i - 1]

Views(counts) ==
  [i \in 1..Len(counts) |->
     [startLineIndex |-> Offset(counts, i),
      endLineIndex |-> Offset(counts, i) + counts[i],
      flattenedNodes |-> [k \in 1..counts[i] |-> Node(i, k)]]]

\* flatten(arrays)
RECURSIVE flatten(_)
flatten(arrays) ==
  IF arrays = <<>> THEN <<>> ELSE Head(arrays) \o flatten(Tail(arrays))

\* The arrays taken from the last source to the first.
flattenedNodes_mutReversed(srcs) ==
  flatten([i \in 1..Len(srcs) |-> srcs[Len(srcs) + 1 - i].flattenedNodes])

\* get flattenedNodes()
flattenedNodes(srcs) ==
  flatten([i \in 1..Len(srcs) |-> srcs[i].flattenedNodes])

\* The line index of a cursor row taken as it is.
lineIndexOf_mutRow(row) == row

\* refreshLineIndex: cursor[0] - 1
lineIndexOf(row) == row - 1

\* A range test that takes the end line in.
currentSourceIndex_mutEndIncluded(srcs, lineIndex) ==
  LET hits == {i \in 1..Len(srcs) : /\ lineIndex >= srcs[i].startLineIndex
                                    /\ lineIndex <= srcs[i].endLineIndex}
  IN  IF hits = {} THEN 0 ELSE CHOOSE i \in hits : \A j \in hits : i <= j

\* currentSourceIndex(): the first source whose range holds the line, counted
\* from 1; 0 is findIndex's -1.
currentSourceIndex(srcs, lineIndex) ==
  LET hits == {i \in 1..Len(srcs) : /\ lineIndex >= srcs[i].startLineIndex
                                    /\ lineIndex < srcs[i].endLineIndex}
  IN  IF hits = {} THEN 0 ELSE CHOOSE i \in hits : \A j \in hits : i <= j

\* currentNode(): sources[-1] is undefined, and so is an array element out of
\* range.
currentNodeAt(srcs, lineIndex) ==
  LET i == currentSourceIndex(srcs, lineIndex)
  IN  IF i = 0 THEN undefined
      ELSE LET nodeIndex == lineIndex - srcs[i].startLineIndex
           IN  IF nodeIndex + 1 \in 1..Len(srcs[i].flattenedNodes)
               THEN srcs[i].flattenedNodes[nodeIndex + 1]
               ELSE undefined

\* The rows the cursor can be on: the lines of the sources and one below.
Rows == 1..(MaxSources * MaxNodes + 1)

Located(op) ==
  [op |-> op, win |-> win, row |-> cursor, lineIndex |-> currentLineIndex,
   node |-> undefined]

\* The explorer renders: every source is flattened anew.
renderSources ==
  \E counts \in [1..Len(sources) -> 0..MaxNodes] :
    /\ sources' = Views(counts)
    /\ located' = Located("render")
    /\ UNCHANGED <<win, cursor, currentLineIndex>>
    /\ UNCHANGED <<tvars, fvars>>

\* The user moves the cursor.
moveCursor ==
  \E row \in Rows :
    /\ win
    /\ cursor' = row
    /\ located' = [Located("cursor") EXCEPT !.row = row]
    /\ UNCHANGED <<sources, win, currentLineIndex>>
    /\ UNCHANGED <<tvars, fvars>>

refreshLineIndex ==
  /\ currentLineIndex' = IF win THEN lineIndexOf(cursor) ELSE currentLineIndex
  /\ located' = [Located("refreshLineIndex") EXCEPT !.lineIndex = currentLineIndex']
  /\ UNCHANGED <<sources, win, cursor>>
  /\ UNCHANGED <<tvars, fvars>>

currentNode ==
  /\ located' = [Located("currentNode") EXCEPT
                   !.node = currentNodeAt(sources, currentLineIndex)]
  /\ UNCHANGED <<sources, win, cursor, currentLineIndex>>
  /\ UNCHANGED <<tvars, fvars>>

\* ------------------------------------------------------- initial states
InitTimers ==
  /\ delay \in 1..MaxDelay
  /\ clock = Epoch
  /\ timer = 0
  /\ pending = {}
  /\ lastResolve = 0
  /\ lastTime = 0
  /\ calls = <<>>
  /\ execs = <<>>
  /\ inflight = {}

\* No explorer view.
NoView ==
  /\ sources = <<>>
  /\ win = FALSE
  /\ cursor = 1
  /\ currentLineIndex = 0
  /\ located = <<>>

\* The file source once opened: the root expanded or not, its items loaded.
InitFileSource ==
  /\ fs \in Filesystems
  /\ record \in {<<>>, expand(<<>>, Root)}
  /\ copyItems = {}
  /\ cutItems = {}
  /\ items = loadItems(fs, record).items
  /\ tree = loadItems(fs, record).tree
  /\ gen = 0
  /\ act = Idle
  /\ be = Idle
  /\ modified \in SUBSET {<<"x">>, <<"a", "x">>}
  /\ copiedNodes = {}
  /\ cutNodes = {}
  /\ ops = 0
  /\ showHiddenFiles = FALSE
  /\ NoView

\* No file source.
NoFileSource ==
  /\ fs = [p \in Paths |-> "none"]
  /\ record = <<>>
  /\ items = <<>>
  /\ tree = <<>>
  /\ gen = 0
  /\ copyItems = {}
  /\ cutItems = {}
  /\ act = Idle
  /\ be = Idle
  /\ modified = {}
  /\ copiedNodes = {}
  /\ cutNodes = {}
  /\ ops = 0
  /\ showHiddenFiles = FALSE

\* No debounce or throttle wrapper.
NoTimers ==
  /\ kind = "none"
  /\ tail = FALSE
  /\ delay = 0
  /\ clock = 0
  /\ timer = 0
  /\ pending = {}
  /\ lastResolve = 0
  /\ lastTime = 0
  /\ calls = <<>>
  /\ execs = <<>>
  /\ inflight = {}

\* ------------------------------------------------------ specifications
\* One wrapper built by debounce(delay, fn).
InitDebounce ==
  /\ kind = "debounce"
  /\ tail = FALSE
  /\ InitTimers
  /\ NoFileSource
  /\ NoView

NextDebounce ==
  \/ CallDebounce
  \/ TimerFire
  \/ FnReturn
  \/ Tick

SpecDebounce == InitDebounce /\ [][NextDebounce]_vars

\* One wrapper built by throttle(delay, fn, { tail }).
InitThrottle ==
  /\ kind = "throttle"
  /\ tail \in BOOLEAN
  /\ InitTimers
  /\ NoFileSource
  /\ NoView

NextThrottle ==
  \/ CallThrottle
  \/ TimerFire
  \/ FnReturn
  \/ Tick

SpecThrottle == InitThrottle /\ [][NextThrottle]_vars

\* The file source, its actions and the auto-reveal on buffer enter.
NextFileSource ==
  \/ BufEnter
  \/ BufEnterReveal
  \/ BufEnterListed
  \/ addFile
  \/ addFileInput
  \/ addFileCreate
  \/ addDirectory
  \/ addDirectoryInput
  \/ addDirectoryCreate
  \/ copyFile
  \/ cutFile
  \/ pasteFile
  \/ pasteFileCheck
  \/ pasteFileOne
  \/ pasteFileDone
  \/ ActionReload
  \/ ActionReveal
  \/ ActionListed

InitSource ==
  /\ InitFileSource
  /\ modified = {}
  /\ NoTimers

SpecFileSource == InitSource /\ [][NextFileSource]_vars

\* The file source's delete and deleteForever actions.
NextFileActions ==
  \/ delete
  \/ deleteDiscard
  \/ deleteTrash
  \/ deleteForever
  \/ deleteForeverDiscard
  \/ deleteForeverConfirm
  \/ deleteForeverOne
  \/ load

InitActions ==
  /\ InitFileSource
  /\ NoTimers

SpecFileActions == InitActions /\ [][NextFileActions]_vars

\* The file source's copyFile, cutFile and pasteFile actions, on a tree whose
\* root and directory a are expanded.
ClipboardFilesystems ==
  {f \in Filesystems : /\ f[<<"a">>] = "dir" /\ f[<<"a", "a">>] = "none"
                       /\ f[<<"x">>] # "dir" /\ f[<<"a", "x">>] # "dir"}

InitClipboard ==
  /\ fs \in ClipboardFilesystems
  /\ record = expand(expand(<<>>, Root), <<"a">>)
  /\ copyItems = {}
  /\ cutItems = {}
  /\ items = loadItems(fs, record).items
  /\ tree = loadItems(fs, record).tree
  /\ gen = 0
  /\ act = Idle
  /\ be = Idle
  /\ modified = {}
  /\ copiedNodes = {}
  /\ cutNodes = {}
  /\ ops = 0
  /\ showHiddenFiles = FALSE
  /\ NoView
  /\ NoTimers

NextClipboard ==
  \/ copyFileAction
  \/ cutFileAction
  \/ pasteFileAction
  \/ pasteFileCopy
  \/ pasteFileCopied
  \/ pasteFileMove
  \/ pasteFileMoved
  \/ load

SpecClipboard == InitClipboard /\ [][NextClipboard]_vars

\* The expand and shrink actions of the file source.  expandStore is shared by
\* every explorer of the process and outlives them: when this source is built
\* it may hold the expanded marks of earlier ones, for paths that have changed
\* since.
Stores ==
  {ExpandAll(<<>>, S) : S \in SUBSET {Root, <<"a">>, <<"a", "a">>}}

InitLoading ==
  /\ fs \in Filesystems
  /\ record \in Stores
  /\ copyItems = {}
  /\ cutItems = {}
  /\ items = loadItems(fs, record).items
  /\ tree = loadItems(fs, record).tree
  /\ gen = 0
  /\ act = Idle
  /\ be = Idle
  /\ modified = {}
  /\ copiedNodes = {}
  /\ cutNodes = {}
  /\ ops = 0
  /\ showHiddenFiles = FALSE
  /\ NoView
  /\ NoTimers

NextLoading ==
  \/ rootExpand
  \/ rootShrink
  \/ expandAction
  \/ expandListed
  \/ shrinkAction
  \/ opened
  \/ rootExpandRecursive
  \/ rootExpandRecursiveReloaded
  \/ expandRecursiveAction
  \/ expandRecursiveListed
  \/ rootShrinkRecursive
  \/ shrinkRecursiveAction
  \/ ActionReload
  \/ ActionReveal
  \/ ActionListed

SpecLoading == InitLoading /\ [][NextLoading]_vars

\* The explorer's view: its sources as rendered, the cursor and the locator.
InitView ==
  /\ \E n \in 1..MaxSources : \E counts \in [1..n -> 0..MaxNodes] :
       sources = Views(counts)
  /\ win \in BOOLEAN
  /\ cursor = 1
  /\ currentLineIndex = 0
  /\ located = Located("none")
  /\ NoFileSource
  /\ NoTimers

NextView ==
  \/ renderSources
  \/ moveCursor
  \/ refreshLineIndex
  \/ currentNode

SpecView == InitView /\ [][NextView]_vars

\* The drawing of the file source's items, between its expand and shrink
\* actions and toggleHidden.
InitDraw ==
  /\ fs \in Filesystems
  /\ record \in Stores
  /\ copyItems = {}
  /\ cutItems = {}
  /\ items = loadItems(fs, record).items
  /\ tree = loadItems(fs, record).tree
  /\ gen = 0
  /\ act = Idle
  /\ be = Idle
  /\ modified = {}
  /\ copiedNodes = {}
  /\ cutNodes = {}
  /\ ops = 0
  /\ showHiddenFiles \in BOOLEAN
  /\ NoView
  /\ NoTimers

NextDraw ==
  \/ rootExpand
  \/ expandAction
  \/ expandListed
  \/ shrinkAction
  \/ ActionReload
  \/ toggleHidden
  \/ render

SpecDraw == InitDraw /\ [][NextDraw]_vars

\* ------------------------------------------------------------------ claims
\* The calls that went through debounce, and for each the next such call.
DebCalls == {i \in CallIds : calls[i].via = "deferred"}

NextDeb(i) ==
  LET later == {j \in DebCalls : j > i}
  IN  IF later = {} THEN 0 ELSE CHOOSE j \in later : \A k \in later : j <= k

\* Call i is followed, in its burst, by another call: less than delay later.
Superseded(i) == NextDeb(i) # 0 /\ calls[NextDeb(i)].at - calls[i].at < delay

\* C1: in a burst of debounced calls, each less than delay after the previous
\* one, every call but the last is never executed and resolves with undefined at
\* the instant the next call arrives; the last call of the burst is executed
\* exactly once, exactly delay after it was made (until then its timer is
\* pending and nothing ran for it).
C1_DebounceBurst ==
  \A i \in DebCalls :
    IF Superseded(i)
    THEN /\ ExecsOf(i) = {}
         /\ i \notin pending
         /\ calls[i].state = "noop"
         /\ calls[i].settledAt = calls[NextDeb(i)].at
    ELSE IF i \in pending
         THEN clock <= Due(i) /\ ExecsOf(i) = {} /\ calls[i].state = "pending"
         ELSE /\ Cardinality(ExecsOf(i)) = 1
              /\ \A e \in ExecsOf(i) : execs[e].at = calls[i].at + delay

\* The spec's example, in units of 50 ms: delay 200, calls at 0, 100 and 150;
\* the third call alone has run, at 350, and the first two resolved with
\* undefined at 100 and at 150.
C1_Witness ==
  /\ kind = "debounce"
  /\ delay = 4
  /\ Len(calls) = 3
  /\ calls[1].at = Epoch /\ calls[2].at = Epoch + 2 /\ calls[3].at = Epoch + 3
  /\ calls[1].state = "noop" /\ calls[1].settledAt = Epoch + 2
  /\ calls[2].state = "noop" /\ calls[2].settledAt = Epoch + 3
  /\ execs = <<[call |-> 3, at |-> Epoch + 7]>>

\* C2: a debounced call that resolved with undefined was never executed: fn is
\* not, and was not, invoked with its arguments.
C2_NoopMeansNoWork ==
  \A i \in DebCalls : calls[i].state = "noop" => ExecsOf(i) = {}

\* C3: at most one execution of fn is in flight.
C3_AtMostOneInFlight == Cardinality(inflight) <= 1

\* C4: a throttled call runs fn at once exactly when at least delay has passed
\* since fn was last invoked (at once, or by the deferred tail execution);
\* otherwise it is deferred through debounce (tail) or dropped with undefined
\* and never executed (no tail).
C4_ThrottleRule ==
  \A i \in CallIds :
    /\ (calls[i].via = "immediate") <=> (calls[i].since >= delay)
    /\ calls[i].via # "immediate" =>
         IF tail THEN calls[i].via = "deferred"
         ELSE calls[i].via = "dropped" /\ calls[i].state = "noop" /\ ExecsOf(i) = {}

\* A handler between the end of its reload and the end of its reveal.
InSequence(h) ==
  IF h.name = "bufEnter" THEN h.pc = "revealList"
  ELSE h.name \in {"addFile", "addDirectory"} /\ h.pc \in {"reveal", "revealList"}

\* C5: while a handler is between its reload and the end of its
\* reveal-by-path, no step of another handler replaces the source's items or
\* assigns a FileItem's children.
C5_StableTree ==
  [][/\ (InSequence(act) /\ act' = act) => (items' = items /\ tree' = tree)
     /\ (InSequence(be) /\ be' = be) => (items' = items /\ tree' = tree)]_vars

\* The directory addFile / addDirectory puts the entry typed as `input` in,
\* for the action's node argument.
PutTarget(input) == Join(getPutTargetDir(record, act.item), input)

\* The step in which the action `name` receives a non-empty input.
Typed(name) ==
  /\ act.name = name /\ act.pc = "input"
  /\ act'.pc # "input"
  /\ act'.input # <<>>

\* C6: pasteFile copies or moves an item only after the conflict check of every
\* planned target has returned, and never onto a target that exists.
C6_GuardBeforePaste ==
  act.name = "pasteFile" =>
    \A k \in 1..Len(act.log) : act.log[k].checked /\ ~act.log[k].existed

\* C7: addFile with a non-empty name whose target (the put-target directory of
\* the node joined with the name) exists ends there with a conflict error:
\* nothing is created, nothing is touched, nothing is reloaded.
C7_AddFileConflict ==
  [][(Typed("addFile") /\ fsExists(fs, PutTarget(act'.input))) =>
       /\ act'.pc = "done" /\ act'.result = "ConflictError"
       /\ fs' = fs /\ items' = items /\ tree' = tree /\ gen' = gen]_vars

\* addFile was given the name of an existing entry and ended with the conflict
\* error.
C7_Witness ==
  /\ act.name = "addFile" /\ act.pc = "done" /\ act.result = "ConflictError"
  /\ act.input # <<>>
  /\ act.target = Join(getPutTargetDir(record, act.item), act.input)
  /\ fsExists(fs, act.target)

\* C8: addDirectory is rejected exactly when the directory it would create
\* (the put-target directory of the node joined with the name) exists.
C8_AddDirectoryGuard ==
  [][Typed("addDirectory") =>
       ((act'.result = "ConflictError") <=> fsExists(fs, PutTarget(act'.input)))]_vars

\* C9: delete and deleteForever call fsTrash / fsRimraf only after a prompt of
\* the same invocation was answered 'yes'.
C9_DeleteNeedsConfirmation ==
  act.name \in {"delete", "deleteForever"} =>
    \A k \in 1..Len(act.log) : act.log[k].confirmed

\* C10: a deleteForever that was confirmed has, when it ends, called fsRimraf
\* for every one of its nodes, whether or not one of the calls failed.
C10_DeleteForeverContinues ==
  (act.name = "deleteForever" /\ act.pc = "done" /\ act.result # "cancelled") =>
    UNION {act.log[k].targets : k \in 1..Len(act.log)} = Range(act.nodes)

\* A copyFile / cutFile file action of the given effective type has run.
Ran(name, types) ==
  act.name = name /\ act.pc = "done" /\ CopyOrCutFileType(act.type) \in types

\* C11: after copyFile(nodes, 'replace') the cut set is empty and the copy set
\* is exactly nodes; after cutFile(nodes, 'replace') the copy set is empty and
\* the cut set is exactly nodes.
C11_ReplaceExclusive ==
  /\ Ran("copyFile", {"replace"}) =>
       (cutNodes = {} /\ copiedNodes = Range(act.nodes))
  /\ Ran("cutFile", {"replace"}) =>
       (copiedNodes = {} /\ cutNodes = Range(act.nodes))

\* copyFile(nodes, 'replace') ran on a clipboard that held a cut node and a
\* copied node outside nodes.
C11_Witness ==
  /\ Ran("copyFile", {"replace"}) /\ act.type = "replace"
  /\ act.cut0 # {}
  /\ act.copied0 \ Range(act.nodes) # {}

\* The symmetric difference of two sets.
SymDiff(A, B) == (A \ B) \cup (B \ A)

\* C12: copyFile(sel, 'toggle'), and copyFile(sel) without a type, make the copy
\* set the symmetric difference of the previous copy set and sel; cutFile does
\* the same with the cut set.
C12_ToggleSymDiff ==
  /\ Ran("copyFile", {"toggle"}) => copiedNodes = SymDiff(act.copied0, Range(act.nodes))
  /\ Ran("cutFile", {"toggle"}) => cutNodes = SymDiff(act.cut0, Range(act.nodes))

\* copyFile([f1, f2]) then copyFile([f1]), both without a type, on an empty
\* clipboard: f2 alone is left marked.
C12_Witness ==
  /\ Ran("copyFile", {"toggle"}) /\ act.type = "none"
  /\ Len(act.nodes) = 1
  /\ Cardinality(act.copied0) = 2 /\ act.nodes[1] \in act.copied0
  /\ copiedNodes = act.copied0 \ {act.nodes[1]}
  /\ cutNodes = {}

\* C13: in the types 'toggle' and 'append' copyFile leaves the cut set and
\* cutFile the copy set as it was; with 'append' the marked set becomes the
\* union of what it was and the selection.
C13_OwnSetOnly ==
  /\ Ran("copyFile", {"toggle", "append"}) => cutNodes = act.cut0
  /\ Ran("cutFile", {"toggle", "append"}) => copiedNodes = act.copied0
  /\ Ran("copyFile", {"append"}) => copiedNodes = act.copied0 \cup Range(act.nodes)
  /\ Ran("cutFile", {"append"}) => cutNodes = act.cut0 \cup Range(act.nodes)

\* cutFile([n], 'toggle') ran with n in the copy set: n is still copied.
C13_Witness ==
  /\ Ran("cutFile", {"toggle"})
  /\ Len(act.nodes) = 1 /\ act.nodes[1] \in act.copied0
  /\ act.nodes[1] \in copiedNodes /\ act.nodes[1] \in cutNodes

\* The pasteFile file action found marked nodes and both its batches returned.
Pasted == act.name = "pasteFile" /\ act.pc = "reload"

\* C14: after a pasteFile that found marked nodes the cut set is empty; the
\* copy set is empty if the type is 'clear' or absent, and as it was if the
\* type is 'keepCopy'.
C14_PasteClears ==
  Pasted =>
    /\ cutNodes = {}
    /\ act.type \in {"clear", "none"} => copiedNodes = {}
    /\ act.type = "keepCopy" => copiedNodes = act.copied0

\* The log entries of the batch op of the paste in progress.
Entries(op) == {k \in 1..Len(act.log) : act.log[k].op = op}

\* Every node of S had fn applied by the batch op, and it went through.
AllApplied(op, S) ==
  \A n \in S : \E k \in Entries(op) :
    act.log[k].source = n /\ act.log[k].outcome = "applied" /\ act.log[k].ok

\* Every node of S was taken by the batch op, or the batch was aborted.
AllHandled(op, S) ==
  \A n \in S :
    \/ \E k \in Entries(op) : act.log[k].source = n
    \/ \E k \in Entries(op) : act.log[k].outcome = "abort"

\* C15 as stated: one pasteFile copies every node of the copy set and moves
\* every node of the cut set.
C15_PasteEveryNode ==
  Pasted => (AllApplied("copy", act.copied0) /\ AllApplied("move", act.cut0))

\* C15: one pasteFile hands every node of the copy set to the copy batch and
\* every node of the cut set to the move batch, all copies before any move;
\* a pair whose target is free is applied, a pair whose target exists only if
\* the user confirms; a copy that goes through leaves its source in place, a
\* move that goes through removes it.
C15_PasteBatches ==
  Pasted =>
    /\ AllHandled("copy", act.copied0) /\ AllHandled("move", act.cut0)
    /\ \A i \in Entries("copy") : \A j \in Entries("move") : i < j
    /\ \A k \in 1..Len(act.log) :
         LET e == act.log[k]
         IN  /\ e.source \in (IF e.op = "copy" THEN act.copied0 ELSE act.cut0)
             /\ e.target = PasteTarget(act.target, e.source)
             /\ ~e.existed => e.outcome = "applied"
             /\ e.outcome # "applied" => ~e.ok
             /\ (e.ok /\ e.op = "copy") => (e.sourceAfter /\ e.targetAfter)
             /\ (e.ok /\ e.op = "move") => (~e.sourceAfter /\ e.targetAfter)

\* A pasteFile with both sets marked made a copy and then a move.
C15_Witness ==
  /\ Pasted
  /\ act.copied0 # {} /\ act.cut0 # {}
  /\ \E i \in Entries("copy") : \E j \in Entries("move") :
       /\ i < j
       /\ act.log[i].ok /\ act.log[i].sourceAfter /\ act.log[i].targetAfter
       /\ act.log[j].ok /\ ~act.log[j].sourceAfter /\ act.log[j].targetAfter

\* C16: a pasteFile that finds no node marked for copy or cut shows a message
\* and does nothing else.
C16_EmptyPasteMessage ==
  (act.name = "pasteFile" /\ act.pc = "done" /\ act.mode = "none"
     /\ copyItems = {} /\ cutItems = {} /\ act.log = <<>>)
    => act.shown

\* The item has a parent: it was listed below another item.
HasParent(item) == ~item.null /\ Len(item.fullpath) > 1

\* The item is a directory marked expanded.
ExpandedDir(item) ==
  ~item.null /\ item.directory /\ isExpanded(record, item.fullpath)

\* C17: getPutTargetDir(node) is the node's own path if the node is a directory
\* marked expanded, otherwise its parent's path if it has a parent, otherwise
\* the root; a collapsed directory is never its own target.
C17_PutTargetDir ==
  \A item \in Cursors :
    LET dir == getPutTargetDir(record, item)
    IN  /\ ExpandedDir(item) => dir = item.fullpath
        /\ (~ExpandedDir(item) /\ HasParent(item)) => dir = Dirname(item.fullpath)
        /\ (~ExpandedDir(item) /\ ~HasParent(item)) => dir = Root
        /\ (~item.null /\ item.directory /\ ~isExpanded(record, item.fullpath))
             => dir # item.fullpath

\* pasteFile on a collapsed directory below an expanded one took the parent as
\* its target directory.
C17_Witness ==
  /\ act.name = "pasteFile" /\ act.pc = "done"
  /\ HasParent(act.item) /\ act.item.directory
  /\ ~isExpanded(record, act.item.fullpath)
  /\ isExpanded(record, Dirname(act.item.fullpath))
  /\ act.target = Dirname(act.item.fullpath)
  /\ act.target = getPutTargetDir(record, act.item)

\* Every path expandStore can be asked about.
Keys == Paths \cup {Root}

\* C18: in every step the key set of expandStore only grows; a path without
\* key is reported collapsed; a path the step's expandStore calls did not name
\* is reported as before, and one they named is reported expanded exactly if
\* the last call that named it was expand.
C18_ExpandStore ==
  [][LET new == IF ops' # ops THEN act'.log
                ELSE SubSeq(act'.log, Len(act.log) + 1, Len(act'.log))
         On(p) == {k \in 1..Len(new) : new[k].path = p}
         Last(p) == CHOOSE k \in On(p) : \A j \in On(p) : j <= k
     IN  /\ DOMAIN record \subseteq DOMAIN record'
         /\ \A p \in Keys :
              /\ p \notin DOMAIN record' => ~isExpanded(record', p)
              /\ IF On(p) = {}
                 THEN /\ isExpanded(record', p) = isExpanded(record, p)
                      /\ (p \in DOMAIN record') = (p \in DOMAIN record)
                 ELSE /\ p \in DOMAIN record'
                      /\ isExpanded(record', p) = (new[Last(p)].op = "expand")]_vars

\* A directory that was expanded was shrunk: its key stays, with the value
\* false.
C18_Witness ==
  /\ act.name = "shrink" /\ act.pc = "done"
  /\ act.item.directory
  /\ act.log = <<StoreCall("shrink", act.item.fullpath)>>
  /\ act.item.fullpath \in DOMAIN record
  /\ ~record[act.item.fullpath]
  /\ ~isExpanded(record, act.item.fullpath)

\* C19: after a reload the items are empty if the root is collapsed, and a
\* directory item has its children loaded exactly if it is marked expanded;
\* after the expand action on a directory that directory's children are loaded.
C19_LoadingHonoursStore ==
  /\ (act.name \in {"rootExpand", "rootShrink"} /\ act.pc = "done") =>
       /\ ~isExpanded(record, Root) => items = <<>>
       /\ \A p \in DOMAIN tree :
            /\ tree[p].loaded = isExpanded(record, p)
            /\ ~tree[p].loaded => tree[p].children = <<>>
            /\ tree[p].loaded => tree[p].children = listFiles(fs, record, p)
  /\ (act.name = "expand" /\ act.pc = "done" /\ act.result = "ok"
        /\ act.item.fullpath \in DOMAIN tree) =>
       /\ tree[act.item.fullpath].loaded
       /\ isExpanded(record, act.item.fullpath)

\* The root was expanded and reloaded: one directory item is collapsed and not
\* loaded, another is marked expanded and loaded.
C19_Witness ==
  /\ act.name = "rootExpand" /\ act.pc = "done"
  /\ \E p \in DOMAIN tree : tree[p].directory /\ ~tree[p].loaded
  /\ \E q \in DOMAIN tree : tree[q].directory /\ tree[q].loaded

\* C20: the items a reload lists in the root are the entries of the root whose
\* metadata can be read (in this model: all of them).
C20_ListFilesKeepsReadable ==
  (act.name = "rootExpand" /\ act.pc = "done") =>
    Range(items) = fsReaddir(fs, Root)

\* The list has its directories before its files and, among the directories
\* and among the files, the names in ascending order.
Sorted(list) ==
  \A i, j \in 1..Len(list) :
    i < j =>
      /\ ~(~tree[list[i]].directory /\ tree[list[j]].directory)
      /\ tree[list[i]].directory = tree[list[j]].directory
           => NameRank(Basename(list[i])) < NameRank(Basename(list[j]))

\* C21: the root's item list and the children list of every loaded item have
\* all directories before all files and, within each group, the names in
\* ascending localeCompare order.
C21_SiblingsSorted ==
  /\ Sorted(items)
  /\ \A p \in DOMAIN tree : tree[p].loaded => Sorted(tree[p].children)

\* A recursive expand, an expand or a reveal listed a directory whose entry x is
\* a directory and whose entry a is a file: x comes first.
C21_Witness ==
  /\ act.name \in {"expandRecursive", "expand", "opened"} /\ act.pc = "done"
  /\ \E p \in DOMAIN tree :
       /\ tree[p].loaded
       /\ Len(tree[p].children) = 2
       /\ Basename(tree[p].children[1]) = "x"
       /\ tree[tree[p].children[1]].directory
       /\ ~tree[tree[p].children[2]].directory

\* The sibling list of the FileItem at p, and p's place in it.
ListOf(p) == IF Len(p) = 1 THEN items ELSE tree[Dirname(p)].children

InList(p) == \E k \in 1..Len(ListOf(p)) : ListOf(p)[k] = p

Index(p) == CHOOSE k \in 1..Len(ListOf(p)) : ListOf(p)[k] = p

\* The FileItem at p is visible: it passes the hidden filter, and the root
\* (for a root item) or its parent is visible, marked expanded and loaded.
RECURSIVE Shown(_)
Shown(p) ==
  /\ p \in DOMAIN tree
  /\ IF Len(p) = 1 THEN isExpanded(record, Root)
     ELSE /\ Shown(Dirname(p))
          /\ isExpanded(record, Dirname(p))
          /\ tree[Dirname(p)].loaded
  /\ InList(p)
  /\ showHiddenFiles \/ ~tree[p].hidden

\* p comes before q in depth-first pre-order: p is an ancestor of q, or where
\* their paths part, p's side is the earlier sibling.
PreOrder(p, q) ==
  \/ StartsWithDir(q, p)
  \/ \E n \in 1..Len(p) :
       /\ n <= Len(q)
       /\ SubSeq(p, 1, n - 1) = SubSeq(q, 1, n - 1)
       /\ p[n] # q[n]
       /\ Index(SubSeq(p, 1, n)) < Index(SubSeq(q, 1, n))

\* C22: draw emits exactly the visible items, each once, in depth-first
\* pre-order; the item that follows an item is its child exactly when that item
\* is marked expanded and has loaded children of which one is shown.  With the
\* directory a and the file x in the root and x alone in a, it draws a, x while
\* a is collapsed and a, a/x, x once a is expanded.
C22_DrawPreOrder ==
  (act.name = "draw" /\ act.pc = "done") =>
    LET rows == act.nodes
        kids(p) == {q \in DOMAIN tree : Len(q) > 1 /\ Dirname(q) = p /\ Shown(q)}
    IN  /\ {rows[k] : k \in 1..Len(rows)} = {p \in DOMAIN tree : Shown(p)}
        /\ \A i, j \in 1..Len(rows) : i < j => rows[i] # rows[j] /\ PreOrder(rows[i], rows[j])
        /\ \A k \in 1..Len(rows) :
             (k < Len(rows) /\ Len(rows[k + 1]) > 1 /\ Dirname(rows[k + 1]) = rows[k])
               <=> (isExpanded(record, rows[k]) /\ tree[rows[k]].loaded
                      /\ kids(rows[k]) # {})
        /\ (/\ showHiddenFiles /\ isExpanded(record, Root)
            /\ items = << <<"a">>, <<"x">> >>
            /\ tree[<<"a">>].directory /\ ~tree[<<"x">>].directory
            /\ tree[<<"a">>].loaded => tree[<<"a">>].children = << <<"a", "x">> >>)
             => rows = IF isExpanded(record, <<"a">>) /\ tree[<<"a">>].loaded
                       THEN << <<"a">>, <<"a", "x">>, <<"x">> >>
                       ELSE << <<"a">>, <<"x">> >>

\* The items were drawn with the directory a expanded: a, its file, then the
\* file of the root.
C22_Witness ==
  /\ act.name = "draw" /\ act.pc = "done"
  /\ ops > 0
  /\ act.nodes = << <<"a">>, <<"a", "x">>, <<"x">> >>
  /\ isExpanded(record, <<"a">>)
  /\ ~tree[<<"x">>].directory

\* The sibling lists a draw pass went through: the root's, and the children of
\* every item drawn that is marked expanded and loaded.
DrawnLists ==
  (IF isExpanded(record, Root) THEN {items} ELSE {}) \cup
  {tree[act.nodes[k]].children :
     k \in {j \in 1..Len(act.nodes) :
              isExpanded(record, act.nodes[j]) /\ tree[act.nodes[j]].loaded}}

\* The k-th item of the list passes the hidden filter.
Passes(list, k) == showHiddenFiles \/ ~tree[list[k]].hidden

\* C23: after a draw pass, in every sibling list it went through,
\* isFirstInLevel is set on exactly the first sibling that passes the hidden
\* filter and isLastInLevel on exactly the last one; a sibling the filter
\* removes has neither flag.
C23_LevelFlags ==
  (act.name = "draw" /\ act.pc = "done") =>
    \A list \in DrawnLists : \A k \in 1..Len(list) :
      /\ tree[list[k]].isFirstInLevel
           <=> (Passes(list, k) /\ \A j \in 1..(k - 1) : ~Passes(list, j))
      /\ tree[list[k]].isLastInLevel
           <=> (Passes(list, k) /\ \A j \in (k + 1)..Len(list) : ~Passes(list, j))
      /\ ~Passes(list, k)
           => ~tree[list[k]].isFirstInLevel /\ ~tree[list[k]].isLastInLevel

\* The root's items a (hidden) and x were drawn without the hidden ones: x is
\* the first and the last in its level, a is neither.
C23_Witness ==
  /\ act.name = "draw" /\ act.pc = "done"
  /\ ~showHiddenFiles
  /\ items = << <<"a">>, <<"x">> >>
  /\ act.nodes = << <<"x">> >>
  /\ tree[<<"x">>].isFirstInLevel /\ tree[<<"x">>].isLastInLevel
  /\ ~tree[<<"a">>].isFirstInLevel /\ ~tree[<<"a">>].isLastInLevel

\* The items a draw of the current tree and store emits when the hidden ones
\* are shown (show) or not.
RowsShown(show) == draw(items, tree, record, show).rows

\* The item at p or an item above it is hidden.
UnderHidden(p) == \E n \in 1..Len(p) : tree[SubSeq(p, 1, n)].hidden

\* A step that changes showHiddenFiles is the one of toggleHidden and changes
\* nothing else of the source.
ToggleOnlyFlips ==
  showHiddenFiles' # showHiddenFiles =>
    /\ act'.name = "toggleHidden"
    /\ showHiddenFiles' = ~showHiddenFiles
    /\ <<fs, record, items, tree, gen, copyItems, cutItems>>' =
         <<fs, record, items, tree, gen, copyItems, cutItems>>

Holding(lineIndex) ==
  {i \in 1..Len(sources) : /\ sources[i].startLineIndex <= lineIndex
                           /\ lineIndex < sources[i].endLineIndex}

\* C25: refreshLineIndex takes the cursor row r to the line index r - 1;
\* currentNode returns, for the source whose range holds the line index, that
\* source's flattened node at (line index - startLineIndex), and undefined if
\* no range holds the line index or that index lies outside the flattened
\* sequence; it never returns a node of another source.
C25_CurrentNode ==
  /\ (located.op = "refreshLineIndex" /\ located.win) =>
       /\ located.lineIndex = located.row - 1
       /\ currentLineIndex = located.lineIndex
  /\ located.op = "currentNode" =>
       LET line == located.lineIndex
           node == located.node
       IN  /\ line = currentLineIndex
           /\ Holding(line) = {} => node = undefined
           /\ \A i \in Holding(line) :
                LET k == line - sources[i].startLineIndex + 1
                IN  IF k \in 1..Len(sources[i].flattenedNodes)
                    THEN node = sources[i].flattenedNodes[k]
                    ELSE node = undefined
           /\ node # undefined => node.source \in Holding(line)

\* currentNode found the first node of the second source on the cursor's line,
\* which is the line after the first source's last.
C25_Witness ==
  /\ located.op = "currentNode"
  /\ Len(sources) = 2
  /\ Len(sources[1].flattenedNodes) > 0
  /\ located.lineIndex = cursor - 1
  /\ located.lineIndex = sources[1].endLineIndex
  /\ located.node = Node(2, 1)

\* C26: for every source and every node of its flattened sequence, the cursor
\* put on the node's line (startLineIndex + index, as a 1-indexed row) makes
\* refreshLineIndex and currentNode return that node.
C26_LocatorRoundTrip ==
  \A i \in 1..Len(sources) : \A k \in 1..Len(sources[i].flattenedNodes) :
    LET row == (sources[i].startLineIndex + (k - 1)) + 1
    IN  /\ currentNodeAt(sources, lineIndexOf(row)) = sources[i].flattenedNodes[k]
        /\ (located.op = "currentNode" /\ located.win /\ located.row = row
              /\ located.lineIndex = lineIndexOf(row))
             => located.node = sources[i].flattenedNodes[k]

\* With the cursor on the row of the second source's second node, currentNode
\* returned that node.
C26_Witness ==
  /\ located.op = "currentNode" /\ located.win
  /\ Len(sources) = 2
  /\ Len(sources[1].flattenedNodes) > 0
  /\ Len(sources[2].flattenedNodes) = 2
  /\ located.row = sources[2].startLineIndex + 2
  /\ located.lineIndex = located.row - 1
  /\ located.node = Node(2, 2)

\* C27: the sources' line ranges follow one another without gap or overlap in
\* registration order, each as long as the source's flattened sequence, and the
\* i-th element of the explorer's concatenated flattenedNodes is what
\* currentNode's lookup by range yields for line index i.
C27_RangesMatchConcatenation ==
  /\ \A i \in 1..Len(sources) :
       /\ sources[i].startLineIndex =
            (IF i = 1 THEN 0 ELSE sources[i - 1].endLineIndex)
       /\ sources[i].endLineIndex =
            sources[i].startLineIndex + Len(sources[i].flattenedNodes)
  /\ \A line \in 0..(MaxSources * MaxNodes) : Cardinality(Holding(line)) <= 1
  /\ \A i, j \in 1..Len(sources) :
       i < j => sources[i].endLineIndex <= sources[j].startLineIndex
  /\ \A line \in 0..(Len(flattenedNodes(sources)) - 1) :
       flattenedNodes(sources)[line + 1] = currentNodeAt(sources, line)

\* After a render two sources hold nodes, and the first node of the second
\* source is the element of the concatenation at its line.
C27_Witness ==
  /\ located.op = "render"
  /\ Len(sources) = 2
  /\ Len(sources[1].flattenedNodes) = 2
  /\ Len(sources[2].flattenedNodes) > 0
  /\ flattenedNodes(sources)[sources[2].startLineIndex + 1] = Node(2, 1)

\* The step is the whole run of a shrink action that did not go to the root
\* action: it shrank the item, or the item's parent.
ShrinkStep ==
  /\ ops' # ops
  /\ act'.name = "shrink" /\ act'.pc = "done"

\* The step starts the expand action on a directory item whose children are
\* loaded.
ExpandLoadedStep ==
  /\ ops' # ops
  /\ act'.name = "expand"
  /\ act'.item.directory
  /\ tree[act'.item.fullpath].loaded

\* C28 as stated: shrinking a directory, the root included, changes only
\* expandStore and leaves the loaded items in place.
C28_ShrinkKeepsChildren ==
  [][act'.name \in {"shrink", "rootShrink"} => (items' = items /\ tree' = tree)]_vars

\* C28: the shrink action on an item changes only the expandStore entry of the
\* directory it shrinks (the item or its parent) and leaves every loaded child
\* list in place; the expand action on a directory item whose children are
\* loaded awaits no listing of it and leaves every child list as it is; so the
\* items drawn once the shrunk directory is expanded again are the items drawn
\* before the shrink.  (Shrinking the root reloads, and drops the items.)
C28_MemoizedChildren ==
  [][/\ ShrinkStep =>
          LET path == act'.log[1].path
          IN  /\ items' = items /\ tree' = tree
              /\ ~isExpanded(record', path)
              /\ \A p \in Keys \ {path} : isExpanded(record', p) = isExpanded(record, p)
              /\ (isExpanded(record, path) /\ path = act'.item.fullpath) =>
                   \A show \in BOOLEAN :
                     draw(items', tree', expand(record', path), show).rows
                       = draw(items, tree, record, show).rows
     /\ ExpandLoadedStep =>
          /\ items' = items /\ tree' = tree
          /\ ~(act'.pc = "expandList" /\ act'.rnode = act'.item.fullpath)
          /\ isExpanded(record', act'.item.fullpath)]_vars

\* The expand action ran on a directory that was loaded and collapsed (it had
\* been shrunk): it ended without awaiting any listing, and the directory's
\* children are the ones it had.
C28_Witness ==
  /\ act.name = "expand" /\ act.pc = "done" /\ act.result = "ok"
  /\ ops >= 2
  /\ act.item.directory
  /\ act.rnode = Root /\ act.log = <<StoreCall("expand", act.item.fullpath)>>
  /\ tree[act.item.fullpath].loaded
  /\ tree[act.item.fullpath].children # <<>>
  /\ record[act.item.fullpath]

\* The directories of the filesystem at or below the path.
DirectoriesIn(path) ==
  {p \in Paths : fs[p] = "dir" /\ (p = path \/ path = Root \/ StartsWithDir(p, path))}

\* C29: after shrinkRecursive on the root or on an expanded directory, the
\* target and every directory in its subtree, loaded or not, is marked
\* collapsed in expandStore.
C29_ShrinkRecursiveCollapsesAll ==
  /\ (act.name = "rootShrinkRecursive" /\ act.pc = "done") =>
       /\ ~isExpanded(record, Root)
       /\ \A p \in DirectoriesIn(Root) : ~isExpanded(record, p)
  /\ (act.name = "shrinkRecursive" /\ act.pc = "done"
        /\ act.item.directory /\ act.target = act.item.fullpath) =>
       \A p \in DirectoriesIn(act.target) : ~isExpanded(record, p)

\* A recursive expand is waiting for a reload or for listings.
ExpandingRecursively == act.pc \in {"reloadItems", "expandItems"}

\* What a recursive expand has left to do: the reload it waits for, and the
\* directories of the filesystem whose children are not loaded.
Left ==
  (IF act.pc = "reloadItems" THEN Cardinality(Paths) + 1 ELSE 0) +
  Cardinality({p \in Paths : fs[p] = "dir" /\ ~(p \in DOMAIN tree /\ tree[p].loaded)})

\* C30: expandRecursive on a directory item, and the root's expandRecursive,
\* end: while one waits for listings there is a listing to return, and each
\* return (of the reload, of a listing) leaves less to do, on a tree of
\* finitely many directories.
\* When they have ended, the directory and every directory below it is marked
\* expanded and has its children loaded.  On a file the action ends at once and
\* changes neither expandStore nor the items.
C30_ExpandRecursive ==
  /\ [](/\ (act.name = "expandRecursive" /\ act.pc = "done" /\ act.item.directory) =>
             \A p \in DirectoriesIn(act.item.fullpath) :
               p \in DOMAIN tree /\ isExpanded(record, p) /\ tree[p].loaded
        /\ (act.name = "rootExpandRecursive" /\ act.pc = "done") =>
             /\ isExpanded(record, Root)
             /\ \A p \in DirectoriesIn(Root) :
                  p \in DOMAIN tree /\ isExpanded(record, p) /\ tree[p].loaded
        /\ act.pc = "expandItems" => act.todo # {})
  /\ [][/\ (ops' # ops /\ act'.name = "expandRecursive" /\ ~act'.item.directory) =>
             /\ act'.pc = "done"
             /\ record' = record /\ items' = items /\ tree' = tree
        /\ ExpandingRecursively =>
             /\ Left' < Left
             /\ act'.pc \in {"expandItems", "done"}
             /\ act'.pc = "done" => act'.result = "ok"]_vars

\* expandRecursive on the directory a, which holds two directories, has ended:
\* it listed what was not loaded, and all three are marked expanded and loaded.
C30_Witness ==
  /\ act.name = "expandRecursive" /\ act.pc = "done" /\ act.result = "ok"
  /\ act.item.fullpath = <<"a">>
  /\ DirectoriesIn(<<"a">>) = {<<"a">>, <<"a", "a">>, <<"a", "x">>}
  /\ Len(act.log) = 3
  /\ \A p \in DirectoriesIn(<<"a">>) : isExpanded(record, p) /\ tree[p].loaded

\* The directories strictly between the root and the path.
Ancestors(path) == {SubSeq(path, 1, n) : n \in 1..(Len(path) - 1)}

\* C31: revealItemByPath(path) with the root expanded: if an entry with that
\* path exists below the root it returns the node at that path, and every
\* directory between the root and the node is then marked expanded and has its
\* children loaded; if there is none it returns null; it raises no error.
C31_RevealItemByPath ==
  (act.name = "opened" /\ act.pc = "done" /\ isExpanded(record, Root)) =>
    /\ act.result \in {"revealed", "notFound"}
    /\ fsExists(fs, act.target) =>
         /\ act.result = "revealed"
         /\ \A p \in Ancestors(act.target) :
              p \in DOMAIN tree /\ isExpanded(record, p) /\ tree[p].loaded
    /\ ~fsExists(fs, act.target) => act.result = "notFound"

\* Neither the copy set nor the cut set holds a node.
NothingToPaste == copyItems = {} /\ cutItems = {}

\* C32: every reload of the file source (loadItems) empties both the copy
\* set and the cut set; afterwards only copyFile or cutFile fills a set
\* again, and a pasteFile that starts with both sets empty finds nothing to
\* paste: it ends at once and changes neither the files nor the items.
C32_ReloadClearsClipboard ==
  /\ [][gen' # gen => NothingToPaste']_vars
  /\ [][(NothingToPaste /\ ~NothingToPaste') =>
          act'.name \in {"copyFile", "cutFile"}]_vars
  /\ [][(NothingToPaste /\ ops' # ops /\ act'.name = "pasteFile") =>
          /\ act'.pc = "done" /\ act'.mode = "none"
          /\ fs' = fs /\ items' = items /\ gen' = gen]_vars

\* An add action has reloaded the source after an earlier action.
C32_Witness ==
  /\ act.name \in {"addFile", "addDirectory"} /\ act.pc = "reveal"
  /\ ops = MaxOps /\ be.name = "none" /\ gen = 1
  /\ NothingToPaste

\* The 'modified' column hands bufManager.onModified one debounced handler
\* whose fn is renderPaths([fullpath]); the fullpath of event c is c itself.
\* The paths passed to renderPaths so far:
renderedPaths == {execs[e].call : e \in 1..Len(execs)}

\* C33: with the 'modified' column's single debounced handler, every path
\* reported by a buffer-modified event is re-rendered: when the events for two
\* distinct paths arrive less than the delay apart, both paths have been
\* passed to renderPaths once the burst has ended (no timer is left to run).
C33_EveryModifiedPathRendered ==
  (kind = "debounce" /\ pending = {}) =>
    \A a, b \in CallIds :
      (a < b /\ calls[b].at - calls[a].at < delay) =>
        {a, b} \subseteq renderedPaths

\* C34: currentNode returns the node on the window's actual cursor line at
\* the time of the call: in every interleaving of cursor moves, renders,
\* refreshLineIndex and currentNode, the cached currentLineIndex that
\* currentNode uses equals the cursor row minus one.
C34_CurrentNodeAtCursor ==
  (located.op = "currentNode" /\ located.win) =>
    /\ located.lineIndex = located.row - 1
    /\ located.node = currentNodeAt(sources, cursor - 1)

====
